---- MODULE Spec2Model ----
(***************************************************************************)
(* Verification model of the multi-phase league scheduler                  *)
(* (service/models/phases): the indexed Schedule with its constraint       *)
(* checks, Phase 1C's swap, and the week-by-week controller.               *)
(*                                                                         *)
(* Ids are positive integers; None (a missing dictionary key, Python's     *)
(* None) is 0, which like None is falsy in the code's truthiness tests.    *)
(* Dates are day numbers counted from the Sunday that starts week 0.       *)
(***************************************************************************)
EXTENDS Integers, Sequences, FiniteSets, TLC

(***************************************************************************)
(* Bounds of the model.                                                    *)
(***************************************************************************)
NumTeams == 6
NumTimeslots == 4
MaxGames == 2
MaxCap == 2

(***************************************************************************)
(* The DataModel: roster, timeslots, locations, TSLs, week / day index.    *)
(***************************************************************************)
None == 0

\* game.get('date') of a record without a date
NoDate == 0 - 1000

Truthy(x) == x # None

\* stop_after_phase = None: no phase named
NoPhase == ""

Teams == 1..NumTeams

divisions == <<1, 2>>

\* team_lookup[t]['division_id'] of the roster: teams 1..4 form division 1,
\* the others division 2.
team_lookup == [t \in Teams |-> [team_id |-> t, division_id |-> IF t <= 4 THEN 1 ELSE 2]]

Timeslots == 1..NumTimeslots

Locations == {1, 2}

\* The date of a timeslot (timeslots come in groups of three per week: two on
\* the Sunday, one on the Tuesday).
TimeslotDate(ts) == 7 * ((ts - 1) \div 3) + (IF (ts - 1) % 3 = 2 THEN 2 ELSE 0)

\* day_mapping: timeslot_id -> date
day_mapping == [ts \in Timeslots |-> TimeslotDate(ts)]

\* week_mapping[timeslot_id][0]: the week number, days since week start // 7
week_mapping == [ts \in Timeslots |-> TimeslotDate(ts) \div 7]

\* location_availability records in database order: location 1 is open at
\* every timeslot, location 2 at the first timeslot only.
LocationOpen(ts, loc) == loc = 1 \/ ts = 1

RECURSIVE AvailFrom(_, _)
AvailFrom(ts, loc) ==
    IF ts > NumTimeslots THEN <<>>
    ELSE LET rest == IF loc = 2 THEN AvailFrom(ts + 1, 1) ELSE AvailFrom(ts, 2)
         IN IF LocationOpen(ts, loc)
            THEN <<[timeslot_id |-> ts, location_id |-> loc]>> \o rest
            ELSE rest

location_availability == AvailFrom(1, 1)

\* DataModel._build_tsls: one TSL per availability record whose timeslot and
\* location exist, numbered from 1.
_build_tsls(avail) ==
    [i \in 1..Len(avail) |->
        [tsl_id |-> i,
         timeslot_id |-> avail[i].timeslot_id,
         location_id |-> avail[i].location_id,
         date |-> TimeslotDate(avail[i].timeslot_id)]]

\* location_availability records of a venue that opens location 2 at every
\* timeslot of week 0 as well: six TSLs in week 0
full_week_availability ==
    LET both == [i \in 1..(2 * NumTimeslots) |->
                    [timeslot_id |-> (i + 1) \div 2, location_id |-> 2 - (i % 2)]]
    IN SelectSeq(both, LAMBDA a :
            a.location_id = 1 \/ TimeslotDate(a.timeslot_id) \div 7 = 0)

\* location_availability records of a venue that opens location 2 on the
\* Tuesday of week 0 only
tuesday_venue_availability ==
    LET both == [i \in 1..(2 * NumTimeslots) |->
                    [timeslot_id |-> (i + 1) \div 2, location_id |-> 2 - (i % 2)]]
    IN SelectSeq(both, LAMBDA a :
            a.location_id = 1 \/ TimeslotDate(a.timeslot_id) = 2)

(***************************************************************************)
(* State.                                                                  *)
(***************************************************************************)
VARIABLES
    schedule,             \* the Schedule object: games and its indexes
    max_games_per_week,   \* config['max_games_per_week']
    max_games_per_day,    \* config['max_games_per_day']
    call,                 \* the last call made on the Schedule and its outcome
    team_availability,    \* DataModel.team_availability: team_id -> timeslot ids
    division_preferred_locations,
                          \* the model attribute Phases 1B and 2 read
    stop_after_phase,     \* MultiPhaseController.stop_after_phase
    pc,                   \* where the controller's schedule() call stands
    all_weeks,            \* schedule(): the sorted week numbers to process
    week_idx,             \* schedule(): position of the week loop in all_weeks
    ph,                   \* the running phase's local variables
    log,                  \* the phase banners logged so far
    tsls,                 \* DataModel.tsls: the TSLs built from the availability
    feasible_games,       \* the candidate list handed to schedule()
    rerun,                \* a second run of Phase 1A: its schedule and locals
    probe,                \* a component run on its own: a helper's arguments and result,
                          \* TrueMultiPhaseScheduler's tracking, the job manager's files
    timeout               \* MultiPhaseController.timeout: seconds for the whole run

TslIds == 1..Len(tsls)

ctrl_vars ==
    <<team_availability, division_preferred_locations, stop_after_phase,
      pc, all_weeks, week_idx, ph, log, tsls, feasible_games, rerun, probe,
      timeout>>

vars ==
    <<schedule, max_games_per_week, max_games_per_day, call,
      team_availability, division_preferred_locations, stop_after_phase,
      pc, all_weeks, week_idx, ph, log, tsls, feasible_games, rerun, probe,
      timeout>>

(***************************************************************************)
(* Python containers.                                                      *)
(***************************************************************************)
\* dict.get(k, []) on an index whose values are lists
Get(d, k) == IF k \in DOMAIN d THEN d[k] ELSE <<>>

\* d[k] = v
Put(d, k, v) == [x \in (DOMAIN d) \cup {k} |-> IF x = k THEN v ELSE d[x]]

\* del d[k]
Del(d, k) == [x \in (DOMAIN d) \ {k} |-> d[x]]

\* x in list
InList(seq, x) == \E i \in 1..Len(seq) : seq[i] = x

\* list.remove(x): drops the first element equal to x
ListRemove(seq, x) ==
    IF ~InList(seq, x) THEN seq
    ELSE LET i == CHOOSE j \in 1..Len(seq) :
                      seq[j] = x /\ \A k \in 1..(j - 1) : seq[k] # x
         IN SubSeq(seq, 1, i - 1) \o SubSeq(seq, i + 1, Len(seq))

\* defaultdict(list)[k].append(x)
AppendAt(d, k, x) == Put(d, k, Append(Get(d, k), x))

\* if x in d.get(k, []): d[k].remove(x)
\* Python keeps the key with an empty list; every read of these indexes goes
\* through d.get(k, []) (or its truth value), which cannot tell an empty list
\* from a missing key, so the model stores the dictionary without empty entries.
RemoveAt(d, k, x) ==
    IF ~InList(Get(d, k), x) THEN d
    ELSE LET rest == ListRemove(d[k], x)
         IN IF rest = <<>> THEN Del(d, k) ELSE Put(d, k, rest)

(***************************************************************************)
(* Schedule (phases/schedule.py).                                          *)
(***************************************************************************)
EmptyDict == [x \in {} |-> <<>>]

\* Schedule.__init__
NewSchedule ==
    [games |-> <<>>,
     games_by_tsl |-> EmptyDict,
     games_by_team_day |-> EmptyDict,
     games_by_team_week |-> EmptyDict,
     used_tsls |-> {}]

InDayMapping(ts) == Truthy(ts) /\ ts \in DOMAIN day_mapping

InWeekMapping(ts) == Truthy(ts) /\ ts \in DOMAIN week_mapping

\* self.model.team_lookup.get(team, {}).get('division_id')
DivisionOf(team) == IF team \in DOMAIN team_lookup THEN team_lookup[team].division_id ELSE None

\* Constraint 1: only one game per TSL
check_tsl(s, game) ==
    IF game.tsl_id \in DOMAIN s.games_by_tsl THEN <<"tsl_used">> ELSE <<>>

\* Constraint 2: only one game per team per day
check_day(s, game) ==
    IF InDayMapping(game.timeslot_id)
    THEN LET day == day_mapping[game.timeslot_id]
         IN (IF Get(s.games_by_team_day, <<game.teamA, day>>) # <<>>
             THEN <<"day_a">> ELSE <<>>)
            \o (IF Get(s.games_by_team_day, <<game.teamB, day>>) # <<>>
                THEN <<"day_b">> ELSE <<>>)
    ELSE <<>>

\* Constraint 3: max games per team per week
check_week(s, game) ==
    IF InWeekMapping(game.timeslot_id)
    THEN LET week_num == week_mapping[game.timeslot_id]
         IN (IF Len(Get(s.games_by_team_week, <<game.teamA, week_num>>)) >= max_games_per_week
             THEN <<"week_a">> ELSE <<>>)
            \o (IF Len(Get(s.games_by_team_week, <<game.teamB, week_num>>)) >= max_games_per_week
                THEN <<"week_b">> ELSE <<>>)
    ELSE <<>>

\* Constraint 4: teams only play within their division
check_division(s, game) ==
    IF Truthy(game.teamA) /\ Truthy(game.teamB)
          /\ DivisionOf(game.teamA) # DivisionOf(game.teamB)
    THEN <<"division">> ELSE <<>>

\* Constraint 5: a team cannot play itself
check_self(s, game) == IF game.teamA = game.teamB THEN <<"self_play">> ELSE <<>>

\* a constraint check that forgets the TSL index
check_constraints_without_tsl(s, game) ==
    check_day(s, game) \o check_week(s, game) \o check_division(s, game) \o check_self(s, game)

\* Schedule._check_constraints: the list of violations of a game
_check_constraints(s, game) ==
    check_tsl(s, game) \o check_day(s, game) \o check_week(s, game)
        \o check_division(s, game) \o check_self(s, game)

\* Schedule._update_indexes_add
\* _update_indexes_add that forgets the (team, week) index
update_indexes_add_without_week(s, game) ==
    LET team_a == game.teamA
        team_b == game.teamB
        tsl_id == game.tsl_id
        timeslot_id == game.timeslot_id
        s1 == IF Truthy(tsl_id)
              THEN [s EXCEPT !.games_by_tsl = Put(@, tsl_id, game),
                             !.used_tsls = @ \cup {tsl_id}]
              ELSE s
    IN IF InDayMapping(timeslot_id)
       THEN LET day == day_mapping[timeslot_id]
            IN [s1 EXCEPT !.games_by_team_day =
                    AppendAt(AppendAt(@, <<team_a, day>>, game), <<team_b, day>>, game)]
       ELSE s1

_update_indexes_add(s, game) ==
    LET team_a == game.teamA
        team_b == game.teamB
        tsl_id == game.tsl_id
        timeslot_id == game.timeslot_id
        s1 == IF Truthy(tsl_id)
              THEN [s EXCEPT !.games_by_tsl = Put(@, tsl_id, game),
                             !.used_tsls = @ \cup {tsl_id}]
              ELSE s
        s2 == IF InDayMapping(timeslot_id)
              THEN LET day == day_mapping[timeslot_id]
                   IN [s1 EXCEPT !.games_by_team_day =
                           AppendAt(AppendAt(@, <<team_a, day>>, game), <<team_b, day>>, game)]
              ELSE s1
        s3 == IF InWeekMapping(timeslot_id)
              THEN LET week_num == week_mapping[timeslot_id]
                   IN [s2 EXCEPT !.games_by_team_week =
                           AppendAt(AppendAt(@, <<team_a, week_num>>, game), <<team_b, week_num>>, game)]
              ELSE s2
    IN s3

\* an index removal that leaves the TSL marked as used
update_indexes_remove_keeping_tsl(s, game) ==
    LET s2 == IF InDayMapping(game.timeslot_id)
              THEN LET day == day_mapping[game.timeslot_id]
                   IN [s EXCEPT !.games_by_team_day =
                           RemoveAt(RemoveAt(@, <<game.teamA, day>>, game), <<game.teamB, day>>, game)]
              ELSE s
    IN IF InWeekMapping(game.timeslot_id)
       THEN LET week_num == week_mapping[game.timeslot_id]
            IN [s2 EXCEPT !.games_by_team_week =
                    RemoveAt(RemoveAt(@, <<game.teamA, week_num>>, game), <<game.teamB, week_num>>, game)]
       ELSE s2

\* Schedule._update_indexes_remove
_update_indexes_remove(s, game) ==
    LET team_a == game.teamA
        team_b == game.teamB
        tsl_id == game.tsl_id
        timeslot_id == game.timeslot_id
        s1 == IF Truthy(tsl_id)
              THEN [s EXCEPT !.games_by_tsl = IF tsl_id \in DOMAIN @ THEN Del(@, tsl_id) ELSE @,
                             !.used_tsls = @ \ {tsl_id}]
              ELSE s
        s2 == IF InDayMapping(timeslot_id)
              THEN LET day == day_mapping[timeslot_id]
                   IN [s1 EXCEPT !.games_by_team_day =
                           RemoveAt(RemoveAt(@, <<team_a, day>>, game), <<team_b, day>>, game)]
              ELSE s1
        s3 == IF InWeekMapping(timeslot_id)
              THEN LET week_num == week_mapping[timeslot_id]
                   IN [s2 EXCEPT !.games_by_team_week =
                           RemoveAt(RemoveAt(@, <<team_a, week_num>>, game), <<team_b, week_num>>, game)]
              ELSE s2
    IN s3

\* Schedule.add_game: the return value and the schedule afterwards
add_game(s, game) ==
    LET violations == _check_constraints(s, game)
    IN IF violations # <<>>
       THEN [ret |-> FALSE, s |-> s]
       ELSE [ret |-> TRUE,
             s |-> _update_indexes_add([s EXCEPT !.games = Append(@, game)], game)]

\* Schedule.remove_game: the return value and the schedule afterwards
remove_game(s, game) ==
    IF ~InList(s.games, game)
    THEN [ret |-> FALSE, s |-> s]
    ELSE [ret |-> TRUE,
          s |-> _update_indexes_remove([s EXCEPT !.games = ListRemove(@, game)], game)]

\* Schedule.get_team_games_in_week
get_team_games_in_week(s, team_id, week_num) == Get(s.games_by_team_week, <<team_id, week_num>>)

\* Schedule.get_team_games_on_day
get_team_games_on_day(s, team_id, day) == Get(s.games_by_team_day, <<team_id, day>>)

\* Schedule.is_tsl_used
is_tsl_used(s, tsl_id) == tsl_id \in s.used_tsls

\* Schedule.get_games_for_week
get_games_for_week(s, week_num) ==
    SelectSeq(s.games, LAMBDA g : InWeekMapping(g.timeslot_id) /\ week_mapping[g.timeslot_id] = week_num)

(***************************************************************************)
(* Phase 1C's swap (phases/phase_1c_displacement.py).                      *)
(***************************************************************************)
\* a swap that binds the new team and adds no game for the displaced team
apply_swap_without_replacement(s, original_game, modified_game, new_game) ==
    LET removed == remove_game(s, original_game)
    IN IF ~removed.ret THEN [s |-> removed.s, path |-> "remove_failed"]
       ELSE LET added1 == add_game(removed.s, modified_game)
            IN IF ~added1.ret
               THEN [s |-> add_game(added1.s, original_game).s, path |-> "modified_rejected"]
               ELSE [s |-> added1.s, path |-> "swapped"]

\* a swap that gives up when the new game is rejected, without restoring
apply_swap_without_rollback(s, original_game, modified_game, new_game) ==
    LET removed == remove_game(s, original_game)
    IN IF ~removed.ret
       THEN [s |-> removed.s, path |-> "remove_failed"]
       ELSE LET added1 == add_game(removed.s, modified_game)
            IN IF ~added1.ret
               THEN [s |-> add_game(added1.s, original_game).s, path |-> "modified_rejected"]
               ELSE LET added2 == add_game(added1.s, new_game)
                    IN [s |-> added2.s, path |-> IF added2.ret THEN "swapped" ELSE "new_rejected"]

\* Phase1CDisplacement._apply_swap: the schedule afterwards and the path taken
_apply_swap(s, original_game, modified_game, new_game) ==
    LET removed == remove_game(s, original_game)
    IN IF ~removed.ret
       THEN [s |-> removed.s, path |-> "remove_failed"]
       ELSE LET added1 == add_game(removed.s, modified_game)
            IN IF ~added1.ret
               THEN [s |-> add_game(added1.s, original_game).s, path |-> "modified_rejected"]
               ELSE LET added2 == add_game(added1.s, new_game)
                    IN IF ~added2.ret
                       THEN [s |-> add_game(remove_game(added2.s, modified_game).s,
                                            original_game).s,
                             path |-> "new_rejected"]
                       ELSE [s |-> added2.s, path |-> "swapped"]

(***************************************************************************)
(* Callers of the Schedule: game records handed to add_game / remove_game. *)
(* A record may lack a key (None) or name a pair the roster does not allow.*)
(***************************************************************************)
Game(team_a, team_b, tsl_id, timeslot_id) ==
    [teamA |-> team_a, teamB |-> team_b, division_id |-> DivisionOf(team_a),
     tsl_id |-> tsl_id, timeslot_id |-> timeslot_id,
     date |-> IF InDayMapping(timeslot_id) THEN day_mapping[timeslot_id] ELSE NoDate]

\* team pairs a caller may name: legal pairs, self-play, a cross-division
\* pair, and records with a team key missing
RawPairs ==
    {<<1, 2>>, <<2, 3>>, <<1, 1>>, <<1, NumTeams>>, <<None, 2>>}

\* bindings a caller may name: every TSL with its timeslot, and records with
\* the tsl_id or the timeslot_id key missing
RawSlots ==
    {<<tsls[i].tsl_id, tsls[i].timeslot_id>> : i \in TslIds}
        \cup {<<None, 1>>, <<1, None>>}

RawGames == {Game(p[1], p[2], sl[1], sl[2]) : p \in RawPairs, sl \in RawSlots}

\* what Phase 1C passes to _apply_swap: an original game (scheduled or not),
\* the same game with one team replaced, and a new game for the displaced team
SwapTeams == {1, 3}

ModifiedGames(original) ==
    {[original EXCEPT !.teamA = u] : u \in SwapTeams}
        \cup {[original EXCEPT !.teamB = u] : u \in SwapTeams}

NewGames ==
    {Game(p[1], p[2], tsls[i].tsl_id, tsls[i].timeslot_id) :
        p \in {<<1, 2>>, <<3, 1>>}, i \in TslIds}

AbsentGame == Game(2, 3, 1, 1)

OriginalGames(s) == {s.games[i] : i \in 1..Len(s.games)} \cup {AbsentGame}

\* no second run of Phase 1A
NoRerun == [pc |-> "idle"]

NoProbe == [pc |-> "idle"]

\* MultiPhaseController.__init__: timeout: int = 120
DefaultTimeout == 120

\* the timeouts a run may be given: none at all, the default
Timeouts == {0, DefaultTimeout}

\* no controller run: the Schedule is driven by its callers directly
NoController ==
    /\ timeout = DefaultTimeout
    /\ team_availability = [t \in Teams |-> Timeslots]
    /\ division_preferred_locations = [defined |-> FALSE, map |-> <<>>]
    /\ stop_after_phase = NoPhase
    /\ pc = "idle"
    /\ all_weeks = <<>>
    /\ week_idx = 0
    /\ ph = [phase |-> NoPhase]
    /\ log = <<>>
    /\ tsls = _build_tsls(location_availability)
    /\ feasible_games = <<>>
    /\ rerun = NoRerun

InitSchedule ==
    /\ schedule = NewSchedule
    /\ max_games_per_week \in 1..MaxCap
    /\ max_games_per_day \in 0..MaxCap
    /\ call = [op |-> "none", ret |-> FALSE, path |-> ""]
    /\ NoController
    /\ probe = NoProbe

\* a caller invokes schedule.add_game(game)
AddGame ==
    \E game \in RawGames :
        LET r == add_game(schedule, game)
        IN /\ r.ret => Len(schedule.games) < MaxGames
           /\ schedule' = r.s
           /\ call' = [op |-> "add_game", ret |-> r.ret, path |-> ""]
           /\ UNCHANGED <<max_games_per_week, max_games_per_day, ctrl_vars>>

\* a caller invokes schedule.remove_game(game)
RemoveGame ==
    \E game \in RawGames :
        LET r == remove_game(schedule, game)
        IN /\ schedule' = r.s
           /\ call' = [op |-> "remove_game", ret |-> r.ret, path |-> ""]
           /\ UNCHANGED <<max_games_per_week, max_games_per_day, ctrl_vars>>

\* Phase 1C invokes _apply_swap(schedule, original, modified, new)
ApplySwap ==
    \E original \in OriginalGames(schedule) :
        \E modified \in ModifiedGames(original), new \in NewGames :
            LET r == _apply_swap(schedule, original, modified, new)
            IN /\ r.path = "swapped" => Len(schedule.games) < MaxGames
               /\ schedule' = r.s
               /\ call' = [op |-> "_apply_swap", ret |-> r.path = "swapped", path |-> r.path]
               /\ UNCHANGED <<max_games_per_week, max_games_per_day, ctrl_vars>>

NextSchedule == AddGame \/ RemoveGame

SpecSchedule == InitSchedule /\ [][NextSchedule]_vars

\* a phase commits a game it built for two roster teams and a TSL
AddNewGame ==
    \E game \in NewGames :
        LET r == add_game(schedule, game)
        IN /\ r.ret => Len(schedule.games) < MaxGames
           /\ schedule' = r.s
           /\ call' = [op |-> "add_game", ret |-> r.ret, path |-> ""]
           /\ UNCHANGED <<max_games_per_week, max_games_per_day, ctrl_vars>>

NextSwap == AddNewGame \/ ApplySwap

\* the controller's configuration with the default daily cap
InitSwap ==
    /\ schedule = NewSchedule
    /\ max_games_per_week \in 1..MaxCap
    /\ max_games_per_day = 1
    /\ call = [op |-> "none", ret |-> FALSE, path |-> ""]
    /\ NoController
    /\ probe = NoProbe

SpecSwap == InitSwap /\ [][NextSwap]_vars

(***************************************************************************)
(* The rest of the DataModel, as the phases read it.                       *)
(***************************************************************************)
\* DataModel.teams in database order
teams == [i \in 1..NumTeams |-> i]

\* team['previous_year_ranking'] of the roster
previous_year_ranking(team_id) == ((team_id * 3) % 5) + 1

\* team.get('preferred_location_id'): team 1 prefers location 2, the others
\* name none
preferred_location_id(team_id) == IF team_id = 1 THEN 2 ELSE None

\* DataModel.previous_games: teams 2 and 4 met the week before week 0
previous_games ==
    <<[team_1_id |-> 2, team_2_id |-> 4, date |-> 0 - 7,
       team_1_score |-> 3, team_2_score |-> 1]>>

\* DataModel._group_teams_by_division: the division's teams in roster order
teams_by_division(division_id) ==
    SelectSeq(teams, LAMBDA t : team_lookup[t].division_id = division_id)

\* DataModel._count_team_season_games
team_season_games(team_id) ==
    Cardinality({i \in 1..Len(previous_games) :
        previous_games[i].team_1_id = team_id \/ previous_games[i].team_2_id = team_id})

\* week_mapping[timeslot_id][1]: the Sunday that starts the week
week_start(week_num) == 7 * week_num

\* a candidate for a pair of teams that lists every TSL the first team of the
\* pair is available at
pair_candidate_one_sided(team_a, team_b) ==
    [teamA |-> team_a, teamB |-> team_b,
     available_tsls |->
        SelectSeq(tsls, LAMBDA tsl : tsl.timeslot_id \in team_availability[team_a])]

\* FeasibleGameGenerator.generate: one candidate per pair of a division with
\* at least one TSL both teams are available at, its TSLs in model order
PairCandidate(team_a, team_b) ==
    [teamA |-> team_a, teamB |-> team_b,
     available_tsls |->
        SelectSeq(tsls, LAMBDA tsl :
            /\ tsl.timeslot_id \in team_availability[team_a]
            /\ tsl.timeslot_id \in team_availability[team_b])]

RECURSIVE PairsFrom(_, _, _)
PairsFrom(div_teams, i, j) ==
    IF i > Len(div_teams) THEN <<>>
    ELSE IF j > Len(div_teams) THEN PairsFrom(div_teams, i + 1, i + 2)
    ELSE LET c == PairCandidate(div_teams[i], div_teams[j])
         IN (IF c.available_tsls # <<>> THEN <<c>> ELSE <<>>)
                \o PairsFrom(div_teams, i, j + 1)

RECURSIVE GenerateFrom(_)
GenerateFrom(d) ==
    IF d > Len(divisions) THEN <<>>
    ELSE PairsFrom(teams_by_division(divisions[d]), 1, 2) \o GenerateFrom(d + 1)

generate == GenerateFrom(1)

(***************************************************************************)
(* Helpers shared by the phases (BasePhase).                               *)
(***************************************************************************)
Range(seq) == {seq[i] : i \in 1..Len(seq)}

Min(S) == CHOOSE x \in S : \A y \in S : x <= y

\* list.sort(key=...): ascending by key, equal keys keep their order
SortByKey(seq, key) ==
    LET n == Len(seq)
        rank(i) == Cardinality({j \in 1..n :
                        \/ key[seq[j]] < key[seq[i]]
                        \/ key[seq[j]] = key[seq[i]] /\ j < i}) + 1
    IN [p \in 1..n |-> seq[CHOOSE i \in 1..n : rank(i) = p]]

_game_involves_both_teams(game_teams, team1_id, team2_id) ==
    {team1_id, team2_id} = game_teams

\* BasePhase._teams_played_recently (Phase 1A carries the same code), over
\* the list model.previous_games holds: a dated game of the two teams whose
\* whole weeks before the start of the current week number 1..weeks_back, or
\* a game of the two teams in the schedule
played_recently_among(games_before, s, team1_id, team2_id, current_week, weeks_back) ==
    \/ \E i \in 1..Len(games_before) :
            LET game == games_before[i]
                days_diff == week_start(current_week) - game.date
                weeks_ago == days_diff \div 7
            IN /\ _game_involves_both_teams({game.team_1_id, game.team_2_id},
                                            team1_id, team2_id)
               /\ game.date # NoDate
               /\ \E ts \in Timeslots : week_mapping[ts] = current_week
               /\ 0 < weeks_ago
               /\ weeks_ago <= weeks_back
    \/ \E i \in 1..Len(s.games) :
            _game_involves_both_teams({s.games[i].teamA, s.games[i].teamB},
                                      team1_id, team2_id)

_teams_played_recently(s, team1_id, team2_id, current_week, weeks_back) ==
    played_recently_among(previous_games, s, team1_id, team2_id, current_week, weeks_back)

\* BasePhase._get_total_game_count: season games plus every scheduled game
_get_total_game_count(s, team_id) ==
    team_season_games(team_id)
        + Cardinality({i \in 1..Len(s.games) :
            s.games[i].teamA = team_id \/ s.games[i].teamB = team_id})

_is_sunday_tsl(tsl) ==
    /\ Truthy(tsl.timeslot_id)
    /\ InDayMapping(tsl.timeslot_id)
    /\ day_mapping[tsl.timeslot_id] % 7 = 0

\* the TSLs of every week that both teams are available at and that are not
\* used yet
available_tsls_any_week(s, team1_id, team2_id, week_num) ==
    SelectSeq(tsls, LAMBDA tsl :
        /\ tsl.timeslot_id \in (team_availability[team1_id] \cap team_availability[team2_id])
        /\ InWeekMapping(tsl.timeslot_id)
        /\ ~is_tsl_used(s, tsl.tsl_id))

\* the TSLs a phase's _try_to_find_game collects: both teams available, in
\* the current week, not used yet (model.tsls order)
available_tsls(s, team1_id, team2_id, week_num) ==
    SelectSeq(tsls, LAMBDA tsl :
        /\ tsl.timeslot_id \in (team_availability[team1_id] \cap team_availability[team2_id])
        /\ InWeekMapping(tsl.timeslot_id)
        /\ week_mapping[tsl.timeslot_id] = week_num
        /\ ~is_tsl_used(s, tsl.tsl_id))

\* the game dict a phase builds from the chosen TSL
GameAt(team1_id, team2_id, tsl) ==
    Game(team1_id, team2_id, tsl.tsl_id, tsl.timeslot_id)

\* the locations the two teams prefer
team_pref_locs(team1_id, team2_id) ==
    {preferred_location_id(t) : t \in {team1_id, team2_id}} \ {None}

\* teams with a game in the week (teamA / teamB of get_games_for_week)
scheduled_team_ids(s, week_num) ==
    LET g == get_games_for_week(s, week_num)
    IN {g[i].teamA : i \in 1..Len(g)} \cup {g[i].teamB : i \in 1..Len(g)}

(***************************************************************************)
(* Phase 1A: pure coverage.                                                *)
(***************************************************************************)
\* _calculate_team_strength_score (Phases 1A and 2 carry the same code):
\* previous_year_ranking - wins + losses over previous_games
_calculate_team_strength_score(team_id) ==
    LET played == {i \in 1..Len(previous_games) :
                        previous_games[i].team_1_id = team_id
                            \/ previous_games[i].team_2_id = team_id}
        own(i) == IF previous_games[i].team_1_id = team_id
                  THEN previous_games[i].team_1_score
                  ELSE previous_games[i].team_2_score
        other(i) == IF previous_games[i].team_1_id = team_id
                    THEN previous_games[i].team_2_score
                    ELSE previous_games[i].team_1_score
        wins == Cardinality({i \in played : own(i) > other(i)})
        losses == Cardinality(played) - wins
    IN previous_year_ranking(team_id) - wins + losses

\* _get_unscheduled_teams_sorted that keeps the teams already scheduled
teams_sorted_unfiltered(s, div_teams, week_num) ==
    SortByKey(div_teams, [t \in Teams |-> _calculate_team_strength_score(t)])

\* Phase1ACoverage._get_unscheduled_teams_sorted
_get_unscheduled_teams_sorted(s, div_teams, week_num) ==
    SortByKey(SelectSeq(div_teams, LAMBDA t : t \notin scheduled_team_ids(s, week_num)),
              [t \in Teams |-> _calculate_team_strength_score(t)])

\* Phase1ACoverage._try_to_find_game: the games random.choice may return
\* (the empty set: None), by the four tiers
Phase1A_try_to_find_game(s, team1_id, team2_id, week_num) ==
    LET avail == Range(available_tsls(s, team1_id, team2_id, week_num))
        pref == team_pref_locs(team1_id, team2_id)
        preferred_sunday_tsls ==
            {t \in avail : t.location_id \in pref /\ _is_sunday_tsl(t)}
        preferred_tsls ==
            {t \in avail : t.location_id \in pref /\ ~_is_sunday_tsl(t)}
        sunday_tsls ==
            {t \in avail : t.location_id \notin pref /\ _is_sunday_tsl(t)}
        chosen == IF preferred_sunday_tsls # {} THEN preferred_sunday_tsls
                  ELSE IF preferred_tsls # {} THEN preferred_tsls
                  ELSE IF sunday_tsls # {} THEN sunday_tsls
                  ELSE avail
    IN {GameAt(team1_id, team2_id, t) : t \in chosen}

\* _find_next_game_for_division with one pass: the first partner that can
\* be bound, met recently or not
find_next_game_any_opponent(s, div_teams, week_num) ==
    LET order == _get_unscheduled_teams_sorted(s, div_teams, week_num)
        n == Len(order)
        found(i, j) == Phase1A_try_to_find_game(s, order[i], order[j], week_num) # {}
        any(i) == {j \in (i + 1)..n : found(i, j)}
        firsts == {i \in 1..n : any(i) # {}}
    IN IF n < 2 \/ firsts = {} THEN {}
       ELSE LET i == Min(firsts)
            IN Phase1A_try_to_find_game(s, order[i], order[Min(any(i))], week_num)

\* Phase1ACoverage._find_next_game_for_division: the first team, strongest
\* first, that can be paired; with the first partner it has not met
\* recently, else with the first partner at all
Phase1A_find_next_game_for_division(s, div_teams, week_num) ==
    LET order == _get_unscheduled_teams_sorted(s, div_teams, week_num)
        n == Len(order)
        found(i, j) == Phase1A_try_to_find_game(s, order[i], order[j], week_num) # {}
        fresh(i) == {j \in (i + 1)..n :
                        /\ ~_teams_played_recently(s, order[i], order[j], week_num, 3)
                        /\ found(i, j)}
        any(i) == {j \in (i + 1)..n : found(i, j)}
        firsts == {i \in 1..n : any(i) # {}}
    IN IF n < 2 \/ firsts = {} THEN {}
       ELSE LET i == Min(firsts)
                j == IF fresh(i) # {} THEN Min(fresh(i)) ELSE Min(any(i))
            IN Phase1A_try_to_find_game(s, order[i], order[j], week_num)

(***************************************************************************)
(* Phase 1B: fill-in for the teams Phase 1A left without a game.           *)
(***************************************************************************)
\* _get_unscheduled_teams_for_week that returns the whole division
all_teams_for_week(s, div_teams, week_num) == div_teams

\* _get_unscheduled_teams_for_week (Phases 1B and 1C): roster order
_get_unscheduled_teams_for_week(s, div_teams, week_num) ==
    SelectSeq(div_teams, LAMBDA t : t \notin scheduled_team_ids(s, week_num))

\* _filter_teams_under_weekly_limit (Phases 1B and 1C)
_filter_teams_under_weekly_limit(s, team_seq, week_num) ==
    SelectSeq(team_seq, LAMBDA t :
        Len(get_team_games_in_week(s, t, week_num)) < max_games_per_week)

\* self.model.division_preferred_locations.get(division_id, set())
div_pref_locs(division_id) ==
    IF division_id \in DOMAIN division_preferred_locations.map
    THEN division_preferred_locations.map[division_id]
    ELSE {}

\* the six-tier choice of Phases 1B and 2: the tier random.choice draws from
SixTierChoice(avail, team1_id, team2_id) ==
    LET team_pref == team_pref_locs(team1_id, team2_id)
        div_pref == div_pref_locs(team_lookup[team1_id].division_id)
        team_pref_sunday ==
            {t \in avail : t.location_id \in team_pref /\ _is_sunday_tsl(t)}
        div_pref_sunday ==
            {t \in avail \ team_pref_sunday :
                t.location_id \in div_pref /\ _is_sunday_tsl(t)}
        sunday_any ==
            {t \in avail \ (team_pref_sunday \cup div_pref_sunday) : _is_sunday_tsl(t)}
        team_pref_any ==
            {t \in avail : ~_is_sunday_tsl(t) /\ t.location_id \in team_pref}
        div_pref_any ==
            {t \in avail \ team_pref_any :
                ~_is_sunday_tsl(t) /\ t.location_id \in div_pref}
    IN IF team_pref_sunday # {} THEN team_pref_sunday
       ELSE IF div_pref_sunday # {} THEN div_pref_sunday
       ELSE IF sunday_any # {} THEN sunday_any
       ELSE IF team_pref_any # {} THEN team_pref_any
       ELSE IF div_pref_any # {} THEN div_pref_any
       ELSE avail

\* Phase1BOptimal._try_to_find_game: the games it may return (none: None);
\* reading model.division_preferred_locations raises AttributeError when the
\* model object does not carry the attribute
Phase1B_try_to_find_game(s, team1_id, team2_id, week_num) ==
    LET avail == Range(available_tsls(s, team1_id, team2_id, week_num))
    IN IF avail = {} THEN [raises |-> FALSE, games |-> {}]
       ELSE IF ~division_preferred_locations.defined
       THEN [raises |-> TRUE, games |-> {}]
       ELSE [raises |-> FALSE,
             games |-> {GameAt(team1_id, team2_id, t) :
                            t \in SixTierChoice(avail, team1_id, team2_id)}]

\* Phase1BOptimal._try_to_schedule_team: pair the team with the first
\* under-limit team of the division it has not met recently and shares a
\* free TSL with, else with the first it shares a free TSL with
_try_to_schedule_team(s, unscheduled_team_id, div_teams, week_num) ==
    LET other_teams == SelectSeq(div_teams, LAMBDA t : t # unscheduled_team_id)
        available_teams == _filter_teams_under_weekly_limit(s, other_teams, week_num)
        n == Len(available_teams)
        open(j) == available_tsls(s, unscheduled_team_id, available_teams[j], week_num) # <<>>
        fresh == {j \in 1..n :
                    /\ ~_teams_played_recently(s, unscheduled_team_id,
                                               available_teams[j], week_num, 3)
                    /\ open(j)}
        any == {j \in 1..n : open(j)}
    IN IF any = {} THEN [raises |-> FALSE, games |-> {}]
       ELSE Phase1B_try_to_find_game(s, unscheduled_team_id,
                available_teams[IF fresh # {} THEN Min(fresh) ELSE Min(any)],
                week_num)

(***************************************************************************)
(* Phase 1C: strategic displacement.                                       *)
(***************************************************************************)
\* Phase1CDisplacement._try_to_find_game: a Sunday TSL if there is one
Phase1C_try_to_find_game(s, team1_id, team2_id, week_num) ==
    LET avail == Range(available_tsls(s, team1_id, team2_id, week_num))
        sunday_tsls == {t \in avail : _is_sunday_tsl(t)}
    IN {GameAt(team1_id, team2_id, t) :
            t \in IF sunday_tsls # {} THEN sunday_tsls ELSE avail}

\* Phase1CDisplacement._get_division_games_this_week
_get_division_games_this_week(s, division_id, week_num) ==
    SelectSeq(get_games_for_week(s, week_num), LAMBDA g : g.division_id = division_id)

\* Phase1CDisplacement._try_swap: the (original, modified, new) triples it
\* may return (none: None)
_try_swap(s, unscheduled_team_id, displaced_team_id, remaining_team_id, original_game, div_teams, week_num) ==
    LET potential_partners ==
            SelectSeq(div_teams, LAMBDA t : t \notin {unscheduled_team_id, remaining_team_id})
        available_partners ==
            _filter_teams_under_weekly_limit(s, potential_partners, week_num)
        new_games(j) ==
            Phase1C_try_to_find_game(s, displaced_team_id, available_partners[j], week_num)
        hits == {j \in 1..Len(available_partners) :
                    /\ ~_teams_played_recently(s, displaced_team_id,
                                               available_partners[j], week_num, 3)
                    /\ new_games(j) # {}}
        modified_game ==
            IF original_game.teamA = displaced_team_id
            THEN [original_game EXCEPT !.teamA = unscheduled_team_id]
            ELSE [original_game EXCEPT !.teamB = unscheduled_team_id]
    IN IF original_game.timeslot_id \notin team_availability[unscheduled_team_id]
       THEN {}
       ELSE IF hits = {} THEN {}
       ELSE {<<original_game, modified_game, new_game>> : new_game \in new_games(Min(hits))}

\* Phase1CDisplacement._try_team_substitution: the first game of the
\* division this week, and side of it, for which _try_swap finds a swap
_try_team_substitution(s, unscheduled_team_id, division_id, div_teams, week_num) ==
    LET existing_games == _get_division_games_this_week(s, division_id, week_num)
        \* attempt 2i-1 displaces teamA of game i, attempt 2i its teamB
        attempt(k) ==
            LET game == existing_games[(k + 1) \div 2]
            IN IF k % 2 = 1
               THEN _try_swap(s, unscheduled_team_id, game.teamA, game.teamB,
                              game, div_teams, week_num)
               ELSE _try_swap(s, unscheduled_team_id, game.teamB, game.teamA,
                              game, div_teams, week_num)
        hits == {k \in 1..(2 * Len(existing_games)) : attempt(k) # {}}
    IN IF hits = {} THEN {} ELSE attempt(Min(hits))

(***************************************************************************)
(* Phase 2: greedy capacity filling.                                       *)
(***************************************************************************)
\* Phase2Greedy._is_team_available
_is_team_available(s, team_id, week_num) ==
    Len(get_team_games_in_week(s, team_id, week_num)) < max_games_per_week

\* _select_next_team_fairly that draws from every team not excluded and
\* under the weekly limit, whatever its total game count
select_next_team_any_count(s, div_teams, week_num, exclude_team_ids) ==
    {t \in Range(div_teams) :
        /\ t \notin exclude_team_ids
        /\ ~(Len(get_team_games_in_week(s, t, week_num)) >= max_games_per_week)}

\* Phase2Greedy._select_next_team_fairly: the teams random.choice draws
\* from (none: None): not excluded, under the weekly limit, fewest total games
_select_next_team_fairly(s, div_teams, week_num, exclude_team_ids) ==
    LET eligible == {t \in Range(div_teams) :
                        /\ t \notin exclude_team_ids
                        /\ ~(Len(get_team_games_in_week(s, t, week_num)) >= max_games_per_week)}
    IN {t \in eligible :
            \A u \in eligible : _get_total_game_count(s, t) <= _get_total_game_count(s, u)}

\* Phase2Greedy._find_similar_strength_opponents
_find_similar_strength_opponents(s, focal_team_id, div_teams, week_num) ==
    LET focal_strength == _calculate_team_strength_score(focal_team_id)
        distance(t) ==
            LET d == _calculate_team_strength_score(t) - focal_strength
            IN IF d < 0 THEN 0 - d ELSE d
    IN SortByKey(SelectSeq(div_teams, LAMBDA t :
                    t # focal_team_id /\ _is_team_available(s, t, week_num)),
                 [t \in Teams |-> distance(t)])

\* Phase2Greedy._try_to_find_game: as Phase 1B's, six tiers
Phase2_try_to_find_game(s, team1_id, team2_id, week_num) ==
    LET avail == Range(available_tsls(s, team1_id, team2_id, week_num))
    IN IF avail = {} THEN [raises |-> FALSE, games |-> {}]
       ELSE IF ~division_preferred_locations.defined
       THEN [raises |-> TRUE, games |-> {}]
       ELSE [raises |-> FALSE,
             games |-> {GameAt(team1_id, team2_id, t) :
                            t \in SixTierChoice(avail, team1_id, team2_id)}]

\* One turn of the loop of Phase2Greedy._division_game_generator for a focal
\* team: the games it may yield (none: the team joins attempted_teams)
_division_game_generator(s, focal_team_id, div_teams, week_num) ==
    LET opponents == _find_similar_strength_opponents(s, focal_team_id, div_teams, week_num)
        n == Len(opponents)
        open(j) == available_tsls(s, focal_team_id, opponents[j], week_num) # <<>>
        fresh == {j \in 1..n :
                    /\ ~_teams_played_recently(s, focal_team_id, opponents[j], week_num, 3)
                    /\ open(j)}
        any == {j \in 1..n : open(j)}
    IN IF any = {} THEN [raises |-> FALSE, games |-> {}]
       ELSE Phase2_try_to_find_game(s, focal_team_id,
                opponents[IF fresh # {} THEN Min(fresh) ELSE Min(any)], week_num)

\* Phase2Greedy._teams_played_this_week
_teams_played_this_week(s, team1_id, team2_id, week_num) ==
    LET week_games == get_games_for_week(s, week_num)
    IN \E i \in 1..Len(week_games) :
            {week_games[i].teamA, week_games[i].teamB} = {team1_id, team2_id}

\* Phase2Greedy._team_has_game_on_date
_team_has_game_on_date(s, team_id, date) ==
    \E i \in 1..Len(s.games) :
        /\ s.games[i].teamA = team_id \/ s.games[i].teamB = team_id
        /\ s.games[i].date # NoDate
        /\ s.games[i].date = date

\* _exhaustive_final_check, the loop over model.tsls for one pair: the first
\* TSL of the week both teams are free at, unused, on a day neither plays,
\* that add_game accepts
RECURSIVE FinalCheckTsls(_, _, _, _, _)
FinalCheckTsls(s, team1_id, team2_id, week_num, k) ==
    IF k > Len(tsls) THEN s
    ELSE LET tsl == tsls[k]
             skip ==
                \/ ~InWeekMapping(tsl.timeslot_id)
                \/ week_mapping[tsl.timeslot_id] # week_num
                \/ tsl.timeslot_id \notin
                        (team_availability[team1_id] \cap team_availability[team2_id])
                \/ is_tsl_used(s, tsl.tsl_id)
                \/ _team_has_game_on_date(s, team1_id, tsl.date)
                \/ _team_has_game_on_date(s, team2_id, tsl.date)
             r == add_game(s, GameAt(team1_id, team2_id, tsl))
         IN IF ~skip /\ r.ret THEN r.s
            ELSE FinalCheckTsls(s, team1_id, team2_id, week_num, k + 1)

\* _exhaustive_final_check, one pair of a division
FinalCheckPair(s, team1_id, team2_id, week_num) ==
    IF \/ _teams_played_this_week(s, team1_id, team2_id, week_num)
       \/ Len(get_team_games_in_week(s, team1_id, week_num)) >= max_games_per_week
       \/ Len(get_team_games_in_week(s, team2_id, week_num)) >= max_games_per_week
       \/ team_availability[team1_id] \cap team_availability[team2_id] = {}
    THEN s
    ELSE FinalCheckTsls(s, team1_id, team2_id, week_num, 1)

\* _exhaustive_final_check, the pairs (i, j), i < j, of one division in order
RECURSIVE FinalCheckPairs(_, _, _, _, _)
FinalCheckPairs(s, div_teams, week_num, i, j) ==
    IF i > Len(div_teams) THEN s
    ELSE IF j > Len(div_teams) THEN FinalCheckPairs(s, div_teams, week_num, i + 1, i + 2)
    ELSE FinalCheckPairs(FinalCheckPair(s, div_teams[i], div_teams[j], week_num),
                         div_teams, week_num, i, j + 1)

\* Phase2Greedy._exhaustive_final_check: the schedule it leaves
RECURSIVE _exhaustive_final_check(_, _, _)
_exhaustive_final_check(s, week_num, d) ==
    IF d > Len(divisions) THEN s
    ELSE LET div_teams == teams_by_division(divisions[d])
         IN _exhaustive_final_check(
                IF Len(div_teams) < 2 THEN s
                ELSE FinalCheckPairs(s, div_teams, week_num, 1, 2),
                week_num, d + 1)

(***************************************************************************)
(* The MultiPhaseController.                                               *)
(***************************************************************************)
RECURSIVE Sorted(_)
Sorted(S) == IF S = {} THEN <<>> ELSE <<Min(S)>> \o Sorted(S \ {Min(S)})

\* the week _group_games_by_week files a candidate under: the week of the
\* FIRST entry of its available_tsls (None: the candidate is dropped)
CandidateWeek(game) ==
    IF game.available_tsls = <<>> THEN NoDate
    ELSE LET timeslot_id == game.available_tsls[1].timeslot_id
         IN IF Truthy(timeslot_id) /\ InWeekMapping(timeslot_id)
            THEN week_mapping[timeslot_id]
            ELSE NoDate

\* MultiPhaseController._group_games_by_week
_group_games_by_week(candidates) ==
    LET keys == {CandidateWeek(candidates[i]) : i \in 1..Len(candidates)} \ {NoDate}
    IN [w \in keys |-> SelectSeq(candidates, LAMBDA g : CandidateWeek(g) = w)]

\* _should_stop_after_week that ends the run after the first week
should_stop_after_first_week == TRUE

\* MultiPhaseController._should_stop_after_week
_should_stop_after_week == FALSE

\* _schedule_week that calls Phase 1C right after Phase 1A
next_phase_skipping_1b(p) ==
    IF p = "1A" THEN "1C" ELSE IF p = "1B" THEN "1C" ELSE "2"

\* _schedule_week: the phase that follows a phase
NextPhase(p) ==
    IF p = "1A" THEN "1B" ELSE IF p = "1B" THEN "1C" ELSE "2"

\* the local variables a phase's schedule() starts with
InitPh(p) ==
    IF p = "1A" THEN [d |-> 1, games_this_round |-> 0, round_num |-> 1]
    ELSE IF p = "2"
    THEN [d |-> 1, games_this_round |-> 0, consecutive_empty_rounds |-> 0,
          division_generators |-> EmptyDict]
    ELSE [d |-> 0, todo |-> <<>>]

\* a phase banner of the log, with the games the schedule holds when it is
\* written
Banner(week, p, ev, games) == [week |-> week, phase |-> p, ev |-> ev, games |-> games]

this_week == all_weeks[week_idx]

\* schedule(): phase_timeouts = _calculate_phase_timeouts(timeout / len(all_weeks)),
\* int() of 10% of the week's time for Phases 1A, 1B, 1C and of 70% for Phase 2
_calculate_phase_timeouts ==
    [p \in {"1A", "1B", "1C", "2"} |->
        IF p = "2" THEN (timeout * 70) \div (100 * Len(all_weeks))
        ELSE (timeout * 10) \div (100 * Len(all_weeks))]

\* phase p returns to _schedule_week, which calls the next phase or returns
\* to the week loop of schedule(), which goes on to the next week or returns
FinishPhase(p) ==
    LET left == Append(log, Banner(this_week, p, "end", schedule'.games))
    IN IF p # "2" /\ stop_after_phase # p
       THEN /\ pc' = NextPhase(p)
            /\ ph' = InitPh(NextPhase(p))
            /\ log' = Append(left, Banner(this_week, NextPhase(p), "start", schedule'.games))
            /\ UNCHANGED week_idx
       ELSE IF \/ stop_after_phase # NoPhase /\ _should_stop_after_week
               \/ week_idx = Len(all_weeks)
       THEN /\ pc' = "done"
            /\ ph' = [phase |-> NoPhase]
            /\ log' = left
            /\ UNCHANGED week_idx
       ELSE /\ pc' = "1A"
            /\ ph' = InitPh("1A")
            /\ week_idx' = week_idx + 1
            /\ log' = Append(left, Banner(all_weeks[week_idx + 1], "1A", "start",
                                          schedule'.games))

\* an exception leaves schedule()
Raise(error) ==
    /\ pc' = "failed"
    /\ ph' = [phase |-> NoPhase, error |-> error]
    /\ UNCHANGED <<schedule, call, week_idx, log>>

config_vars ==
    <<max_games_per_week, max_games_per_day, team_availability,
      division_preferred_locations, stop_after_phase, tsls, feasible_games,
      rerun, probe, timeout>>

\* a phase calls schedule.add_game(game)
PhaseAdd(p, game) ==
    LET r == add_game(schedule, game)
    IN /\ schedule' = r.s
       /\ call' = [op |-> "add_game", ret |-> r.ret, path |-> p]

\* the availability tables a run may be given: every team free at every
\* timeslot; division 2 free from week 1 on only; team 3 free from week 1 on
\* and team 4, in week 0, on the Tuesday only; teams 3 and 4 free at one
\* Sunday timeslot each, not the same; team 1, in week 0, free on the Tuesday
\* only; teams 3 and 4 free at the second Sunday timeslot only, which has one
\* TSL; team 3 free at that timeslot only, team 4 there and on the Tuesday,
\* team 1 not at the first timeslot; team 3 never free; teams 1 to 4 free at
\* different pairs of timeslots, team 3 at the second Sunday timeslot only;
\* nobody free
LaterTimeslots == {ts \in Timeslots : week_mapping[ts] >= 1}

AvailabilityChoices ==
    {[t \in Teams |-> Timeslots],
     [t \in Teams |-> IF team_lookup[t].division_id = 1 THEN Timeslots ELSE LaterTimeslots],
     [t \in Teams |-> IF t = 3 THEN LaterTimeslots
                      ELSE IF t = 4 THEN LaterTimeslots \cup {3}
                      ELSE Timeslots],
     [t \in Teams |-> IF t = 3 THEN {1} ELSE IF t = 4 THEN {2} ELSE Timeslots],
     [t \in Teams |-> IF t = 1 THEN LaterTimeslots \cup {3} ELSE Timeslots],
     [t \in Teams |-> IF t \in {3, 4} THEN {2} ELSE Timeslots],
     [t \in Teams |-> IF t = 1 THEN Timeslots \ {1}
                      ELSE IF t = 3 THEN {2}
                      ELSE IF t = 4 THEN {2, 3}
                      ELSE Timeslots],
     [t \in Teams |-> IF t = 3 THEN {} ELSE Timeslots],
     [t \in Teams |-> IF t = 1 THEN {2, 3}
                      ELSE IF t = 2 THEN {1, 2}
                      ELSE IF t = 3 THEN {2}
                      ELSE IF t = 4 THEN {1, 3}
                      ELSE Timeslots],
     [t \in Teams |-> {}]}

\* the model object with or without the attribute Phases 1B and 2 read
PreferredLocationChoices ==
    {[defined |-> FALSE, map |-> EmptyDict],
     [defined |-> TRUE, map |-> [d \in {2} |-> {1}]]}

\* with the full-week venue: division 1 free at every timeslot and division
\* 2 never (a league of one division of four teams)
FullWeekAvailabilityChoices ==
    {[t \in Teams |-> IF team_lookup[t].division_id = 1 THEN Timeslots ELSE {}]}

\* the DataModel a run is given: venue and team availability
ModelChoices ==
    {[tsls |-> _build_tsls(location_availability), team_availability |-> a] :
        a \in AvailabilityChoices}
    \cup {[tsls |-> _build_tsls(full_week_availability), team_availability |-> a] :
        a \in FullWeekAvailabilityChoices}
    \cup {[tsls |-> _build_tsls(tuesday_venue_availability),
           team_availability |-> [t \in Teams |-> Timeslots]]}

\* a candidate list that was not generated from this DataModel: a pair bound
\* to a timeslot the model does not have, a pair whose TSL names no timeslot,
\* a pair with no TSL
unmapped_candidates ==
    <<[teamA |-> 1, teamB |-> 2,
       available_tsls |-> <<[tsl_id |-> 1, timeslot_id |-> NumTimeslots + 1,
                             location_id |-> 1, date |-> NoDate]>>],
      [teamA |-> 1, teamB |-> 3,
       available_tsls |-> <<[tsl_id |-> 2, timeslot_id |-> None,
                             location_id |-> 1, date |-> NoDate]>>],
      [teamA |-> 2, teamB |-> 3, available_tsls |-> <<>>]>>

InitController ==
    /\ schedule = NewSchedule
    /\ max_games_per_week \in 1..MaxCap
    /\ max_games_per_day = 1
    /\ call = [op |-> "none", ret |-> FALSE, path |-> ""]
    /\ \E m \in ModelChoices :
            /\ tsls = m.tsls
            /\ team_availability = m.team_availability
    /\ feasible_games \in {generate, unmapped_candidates}
    /\ rerun = NoRerun
    /\ probe = NoProbe
    /\ timeout \in Timeouts
    /\ division_preferred_locations \in PreferredLocationChoices
    /\ stop_after_phase \in {NoPhase, "1A", "1B", "1C", "2"}
    /\ pc = "idle"
    /\ all_weeks = <<>>
    /\ week_idx = 0
    /\ ph = [phase |-> NoPhase]
    /\ log = <<>>

\* schedule() that takes an empty candidate list for a non-empty one
empty_list_accepted(candidates) == FALSE

\* schedule(): "if not feasible_games"
no_feasible_games(candidates) == candidates = <<>>

\* MultiPhaseController.schedule(feasible_games) up to the first phase
ScheduleCall ==
    /\ pc = "idle"
    /\ LET games_by_week == _group_games_by_week(feasible_games)
           weeks == Sorted(DOMAIN games_by_week)
       IN IF no_feasible_games(feasible_games)
          THEN Raise("RuntimeError") /\ UNCHANGED all_weeks
          ELSE IF weeks = <<>>
          THEN /\ pc' = "done"
               /\ UNCHANGED <<schedule, call, all_weeks, week_idx, ph, log>>
          ELSE /\ all_weeks' = weeks
               /\ schedule' = NewSchedule
               /\ week_idx' = 1
               /\ pc' = "1A"
               /\ ph' = InitPh("1A")
               /\ log' = <<Banner(weeks[1], "1A", "start", <<>>)>>
               /\ UNCHANGED call
    /\ UNCHANGED config_vars

\* Phase 1A, one division of a round
Phase1A_Division ==
    /\ pc = "1A"
    /\ ph.d <= Len(divisions)
    /\ LET div_teams == teams_by_division(divisions[ph.d])
           found == IF div_teams = <<>> THEN {}
                    ELSE Phase1A_find_next_game_for_division(schedule, div_teams, this_week)
       IN IF found = {}
          THEN /\ ph' = [ph EXCEPT !.d = @ + 1]
               /\ UNCHANGED <<schedule, call>>
          ELSE \E game \in found :
                /\ PhaseAdd("1A", game)
                /\ ph' = [ph EXCEPT !.d = @ + 1,
                                    !.games_this_round =
                                        IF add_game(schedule, game).ret THEN @ + 1 ELSE @]
    /\ UNCHANGED <<pc, all_weeks, week_idx, log, config_vars>>

\* Phase 1A that returns after its first round
Phase1A_single_round ==
    /\ pc = "1A"
    /\ ph.d > Len(divisions)
    /\ UNCHANGED <<schedule, call, all_weeks, config_vars>>
    /\ FinishPhase("1A")

\* Phase 1A, the end of a round: another round, or the phase returns
Phase1A_Round ==
    /\ pc = "1A"
    /\ ph.d > Len(divisions)
    /\ UNCHANGED <<schedule, call, all_weeks, config_vars>>
    /\ IF ph.games_this_round = 0
       THEN FinishPhase("1A")
       ELSE /\ ph' = [InitPh("1A") EXCEPT !.round_num = ph.round_num + 1]
            /\ UNCHANGED <<pc, week_idx, log>>

\* Phases 1B and 1C, the loop over the divisions: the next division's
\* unscheduled teams, or the phase returns
DivisionLoop(p) ==
    /\ ph.todo = <<>>
    /\ UNCHANGED <<schedule, call, all_weeks, config_vars>>
    /\ IF ph.d = Len(divisions)
       THEN FinishPhase(p)
       ELSE /\ ph' = [d |-> ph.d + 1,
                      todo |-> _get_unscheduled_teams_for_week(
                                    schedule, teams_by_division(divisions[ph.d + 1]),
                                    this_week)]
            /\ UNCHANGED <<pc, week_idx, log>>

Phase1B_Division ==
    /\ pc = "1B"
    /\ DivisionLoop("1B")

\* Phase 1B, one unscheduled team
Phase1B_Team ==
    /\ pc = "1B"
    /\ ph.todo # <<>>
    /\ LET found == _try_to_schedule_team(schedule, Head(ph.todo),
                        teams_by_division(divisions[ph.d]), this_week)
       IN IF found.raises
          THEN Raise("AttributeError")
          ELSE /\ IF found.games = {}
                  THEN UNCHANGED <<schedule, call>>
                  ELSE \E game \in found.games : PhaseAdd("1B", game)
               /\ ph' = [ph EXCEPT !.todo = Tail(@)]
               /\ UNCHANGED <<pc, week_idx, log>>
    /\ UNCHANGED <<all_weeks, config_vars>>

Phase1C_Division ==
    /\ pc = "1C"
    /\ DivisionLoop("1C")

\* Phase 1C that tries a team again after a swap for it
Phase1C_Team_again ==
    /\ pc = "1C"
    /\ ph.todo # <<>>
    /\ LET swap_result == _try_team_substitution(schedule, Head(ph.todo),
                              divisions[ph.d], teams_by_division(divisions[ph.d]),
                              this_week)
       IN IF swap_result = {}
          THEN /\ ph' = [ph EXCEPT !.todo = Tail(@)]
               /\ UNCHANGED <<schedule, call>>
          ELSE \E swap \in swap_result :
                LET r == _apply_swap(schedule, swap[1], swap[2], swap[3])
                IN /\ schedule' = r.s
                   /\ call' = [op |-> "_apply_swap", ret |-> r.path = "swapped",
                               path |-> r.path]
                   /\ ph' = IF r.path = "swapped" THEN ph
                            ELSE [ph EXCEPT !.todo = Tail(@)]
    /\ UNCHANGED <<pc, all_weeks, week_idx, log, config_vars>>

\* Phase 1C, one unscheduled team
Phase1C_Team ==
    /\ pc = "1C"
    /\ ph.todo # <<>>
    /\ LET swap_result == _try_team_substitution(schedule, Head(ph.todo),
                              divisions[ph.d], teams_by_division(divisions[ph.d]),
                              this_week)
       IN IF swap_result = {}
          THEN UNCHANGED <<schedule, call>>
          ELSE \E swap \in swap_result :
                LET r == _apply_swap(schedule, swap[1], swap[2], swap[3])
                IN /\ schedule' = r.s
                   /\ call' = [op |-> "_apply_swap", ret |-> r.path = "swapped",
                               path |-> r.path]
    /\ ph' = [ph EXCEPT !.todo = Tail(@)]
    /\ UNCHANGED <<pc, all_weeks, week_idx, log, config_vars>>

\* Phase2Greedy.schedule: max_consecutive_empty
max_consecutive_empty == Len(divisions) * 2

\* Phase 2, _find_next_game_for_division: one turn of the division's
\* generator (created when the division has none)
Phase2_Generator ==
    /\ pc = "2"
    /\ ph.consecutive_empty_rounds < max_consecutive_empty
    /\ ph.d <= Len(divisions)
    /\ LET division_id == divisions[ph.d]
           div_teams == teams_by_division(division_id)
           attempted_teams ==
                IF division_id \in DOMAIN ph.division_generators
                THEN ph.division_generators[division_id]
                ELSE {}
           focal_teams ==
                IF div_teams = <<>> THEN {}
                ELSE _select_next_team_fairly(schedule, div_teams, this_week, attempted_teams)
       IN IF focal_teams = {}
          THEN \* StopIteration: the generator is dropped, no game this round
               /\ ph' = [ph EXCEPT !.division_generators = Del(@, division_id),
                                   !.d = @ + 1]
               /\ UNCHANGED <<schedule, call, pc, week_idx, log>>
          ELSE \E focal_team \in focal_teams :
                LET out == _division_game_generator(schedule, focal_team, div_teams, this_week)
                IN IF out.raises
                   THEN Raise("AttributeError")
                   ELSE IF out.games = {}
                   THEN /\ ph' = [ph EXCEPT !.division_generators =
                                    Put(@, division_id, attempted_teams \cup {focal_team})]
                        /\ UNCHANGED <<schedule, call, pc, week_idx, log>>
                   ELSE \E game \in out.games :
                        /\ PhaseAdd("2", game)
                        /\ ph' = [ph EXCEPT
                                    !.division_generators = Put(@, division_id, attempted_teams),
                                    !.d = @ + 1,
                                    !.games_this_round =
                                        IF add_game(schedule, game).ret THEN @ + 1 ELSE @]
                        /\ UNCHANGED <<pc, week_idx, log>>
    /\ UNCHANGED <<all_weeks, config_vars>>

\* Phase 2 that never counts a round as empty
Phase2_Round_uncounted ==
    /\ pc = "2"
    /\ ph.consecutive_empty_rounds < max_consecutive_empty
    /\ ph.d > Len(divisions)
    /\ ph' = [ph EXCEPT !.d = 1,
                        !.games_this_round = 0,
                        !.consecutive_empty_rounds = 0]
    /\ UNCHANGED <<schedule, call, pc, all_weeks, week_idx, log, config_vars>>

\* Phase 2, the end of a round
Phase2_Round ==
    /\ pc = "2"
    /\ ph.consecutive_empty_rounds < max_consecutive_empty
    /\ ph.d > Len(divisions)
    /\ ph' = [ph EXCEPT !.d = 1,
                        !.games_this_round = 0,
                        !.consecutive_empty_rounds =
                            IF ph.games_this_round = 0 THEN @ + 1 ELSE 0]
    /\ UNCHANGED <<schedule, call, pc, all_weeks, week_idx, log, config_vars>>

\* Phase 2, after the rounds: the exhaustive final check, the generators of
\* the week are cleared and the phase returns
Phase2_FinalCheck ==
    /\ pc = "2"
    /\ ~(ph.consecutive_empty_rounds < max_consecutive_empty)
    /\ LET after == _exhaustive_final_check(schedule, this_week, 1)
       IN /\ schedule' = after
          /\ call' = [op |-> "_exhaustive_final_check",
                      ret |-> Len(after.games) > Len(schedule.games), path |-> "2"]
    /\ FinishPhase("2")
    /\ UNCHANGED <<all_weeks, config_vars>>

\* what schedule() has handed to its caller: an exception, the game list,
\* or nothing yet
schedule_result ==
    IF pc = "failed" THEN [outcome |-> "raised", error |-> ph.error, games |-> <<>>]
    ELSE IF pc = "done"
    THEN [outcome |-> "returned", error |-> "",
          games |-> IF all_weeks = <<>> THEN <<>> ELSE schedule.games]
    ELSE [outcome |-> "running", error |-> "", games |-> <<>>]

\* team['name'] of the roster (names do not sort as the ids do)
team_name(team_id) == (team_id * 3) % 7

\* DataModel.get_division_name
get_division_name(division_id) == 10 + division_id

\* ScheduleGenerator._generate_warnings that looks for unscheduled teams
\* among the teams of the candidate games only
warnings_among_candidates(selected_games, candidates) ==
    LET scheduled_teams ==
            {selected_games[i].teamA : i \in 1..Len(selected_games)}
                \cup {selected_games[i].teamB : i \in 1..Len(selected_games)}
        all_teams == {candidates[i].teamA : i \in 1..Len(candidates)}
                        \cup {candidates[i].teamB : i \in 1..Len(candidates)}
        unscheduled_teams == all_teams \ scheduled_teams
    IN [unscheduled |->
            IF unscheduled_teams = {} THEN <<>>
            ELSE <<[count |-> Cardinality(unscheduled_teams),
                    details |-> {<<team_name(tid),
                                   get_division_name(team_lookup[tid].division_id)>> :
                                        tid \in unscheduled_teams \cap DOMAIN team_lookup}]>>,
        capacity |-> {}]

\* ScheduleGenerator._generate_warnings: the warning that names the teams
\* without a game (none when every team has one; the names are joined in
\* sorted order), and the divisions with fewer games than half their teams
_generate_warnings(selected_games, candidates) ==
    LET scheduled_teams ==
            {selected_games[i].teamA : i \in 1..Len(selected_games)}
                \cup {selected_games[i].teamB : i \in 1..Len(selected_games)}
        all_teams == Range(teams)
        unscheduled_teams == all_teams \ scheduled_teams
        div_games(div_id) ==
            Cardinality({i \in 1..Len(selected_games) :
                            selected_games[i].division_id = div_id})
        needed_slots(div_id) == (Len(teams_by_division(div_id)) + 1) \div 2
    IN [unscheduled |->
            IF unscheduled_teams = {} THEN <<>>
            ELSE <<[count |-> Cardinality(unscheduled_teams),
                    details |-> {<<team_name(tid),
                                   get_division_name(team_lookup[tid].division_id)>> :
                                        tid \in unscheduled_teams \cap DOMAIN team_lookup}]>>,
        capacity |->
            {[division_name |-> get_division_name(div_id),
              scheduled |-> div_games(div_id),
              needed |-> needed_slots(div_id)] :
                div_id \in {d \in Range(divisions) : div_games(d) < needed_slots(d)}}]

NextController ==
    \/ ScheduleCall
    \/ Phase1A_Division
    \/ Phase1A_Round
    \/ Phase1B_Division
    \/ Phase1B_Team
    \/ Phase1C_Division
    \/ Phase1C_Team
    \/ Phase2_Generator
    \/ Phase2_Round
    \/ Phase2_FinalCheck

SpecController == InitController /\ [][NextController]_vars

(***************************************************************************)
(* Phase 1A run twice from one initial schedule, the random generator      *)
(* seeded alike: the two runs draw the same numbers.                       *)
(***************************************************************************)
\* what a call of the random generator may yield
RandomDraws == 0..(Len(tsls) - 1)

\* random.choice(list) when the generator yields u
random_choice(list, u) == list[(u % Len(list)) + 1]

\* the list Phase1ACoverage._try_to_find_game hands to random.choice: the
\* TSLs of the winning tier in model.tsls order
Phase1A_choice_list(s, team1_id, team2_id, week_num) ==
    SelectSeq(available_tsls(s, team1_id, team2_id, week_num), LAMBDA tsl :
        GameAt(team1_id, team2_id, tsl)
            \in Phase1A_try_to_find_game(s, team1_id, team2_id, week_num))

\* the game _try_to_find_game returns for a pair when the generator yields u
Phase1A_chosen_game(s, team1_id, team2_id, week_num, u) ==
    GameAt(team1_id, team2_id,
           random_choice(Phase1A_choice_list(s, team1_id, team2_id, week_num), u))

\* Phase1ACoverage.schedule, "if game: if schedule.add_game(game)": a run
\* r = [schedule, ph, pc] commits the game its division visit found
Phase1A_commit(r, added) ==
    [r EXCEPT !.schedule = added.s,
              !.ph.d = @ + 1,
              !.ph.games_this_round = @ + (IF added.ret THEN 1 ELSE 0)]

\* Phase1ACoverage.schedule, one division visit of a run: found is what
\* _find_next_game_for_division may return for the division
Phase1A_visit(r, found, week_num, u) ==
    IF found = {} THEN [r EXCEPT !.ph.d = @ + 1]
    ELSE LET pair == CHOOSE g \in found : TRUE
         IN Phase1A_commit(r, add_game(r.schedule,
                Phase1A_chosen_game(r.schedule, pair.teamA, pair.teamB, week_num, u)))

\* Phase1ACoverage.schedule, one step of a run r = [schedule, ph, pc] when
\* the generator yields u: a division visit, or the end of a round
Phase1A_step(r, week_num, u) ==
    IF r.pc # "1A" THEN r
    ELSE IF r.ph.d <= Len(divisions)
    THEN LET div_teams == teams_by_division(divisions[r.ph.d])
         IN Phase1A_visit(r,
                IF div_teams = <<>> THEN {}
                ELSE Phase1A_find_next_game_for_division(r.schedule, div_teams, week_num),
                week_num, u)
    ELSE IF r.ph.games_this_round = 0
    THEN [r EXCEPT !.pc = "done"]
    ELSE [r EXCEPT !.ph = [InitPh("1A") EXCEPT !.round_num = r.ph.round_num + 1]]

\* the schedules Phase 1A may be given: empty, or holding a game of the week
InitialSchedules(week_num) ==
    {NewSchedule}
        \cup {add_game(NewSchedule, GameAt(1, 2, tsls[i])).s :
                i \in {k \in 1..Len(tsls) : week_mapping[tsls[k].timeslot_id] = week_num}}

InitRerun ==
    /\ max_games_per_week \in 1..MaxCap
    /\ max_games_per_day = 1
    /\ call = [op |-> "none", ret |-> FALSE, path |-> ""]
    /\ \E m \in ModelChoices :
            /\ tsls = m.tsls
            /\ team_availability = m.team_availability
    /\ feasible_games = generate
    /\ division_preferred_locations = [defined |-> FALSE, map |-> EmptyDict]
    /\ stop_after_phase = "1A"
    /\ \E w \in {week_mapping[ts] : ts \in Timeslots} : all_weeks = <<w>>
    /\ week_idx = 1
    /\ schedule \in InitialSchedules(all_weeks[1])
    /\ pc = "1A"
    /\ ph = InitPh("1A")
    /\ log = <<>>
    /\ rerun = [schedule |-> schedule, ph |-> ph, pc |-> pc]
    /\ probe = NoProbe
    /\ timeout = DefaultTimeout

\* the two runs with generators that are not seeded alike
Phase1A_Rerun_unseeded ==
    /\ pc = "1A" \/ rerun.pc = "1A"
    /\ \E u1, u2 \in RandomDraws :
            /\ \E first \in {Phase1A_step([schedule |-> schedule, ph |-> ph, pc |-> pc],
                                            this_week, u1)} :
                    /\ schedule' = first.schedule
                    /\ ph' = first.ph
                    /\ pc' = first.pc
            /\ rerun' = Phase1A_step(rerun, this_week, u2)
    /\ UNCHANGED <<max_games_per_week, max_games_per_day, call, team_availability,
                   division_preferred_locations, stop_after_phase, all_weeks,
                   week_idx, log, tsls, feasible_games, probe, timeout>>

\* both runs of Phase1ACoverage.schedule take their next step; seeded alike,
\* their generators yield the same number
Phase1A_Rerun ==
    /\ pc = "1A" \/ rerun.pc = "1A"
    /\ \E u \in RandomDraws :
            /\ \E first \in {Phase1A_step([schedule |-> schedule, ph |-> ph, pc |-> pc],
                                            this_week, u)} :
                    /\ schedule' = first.schedule
                    /\ ph' = first.ph
                    /\ pc' = first.pc
            /\ rerun' = Phase1A_step(rerun, this_week, u)
    /\ UNCHANGED <<max_games_per_week, max_games_per_day, call, team_availability,
                   division_preferred_locations, stop_after_phase, all_weeks,
                   week_idx, log, tsls, feasible_games, probe, timeout>>

NextRerun == Phase1A_Rerun

SpecRerun == InitRerun /\ [][NextRerun]_vars

(***************************************************************************)
(* A call of _teams_played_recently on a history of its own.               *)
(***************************************************************************)
MaxWeeksBack == 3

\* the dates a game of the history may carry: from beyond the longest
\* lookback before week 0 to the second week, or none
HistoryDates == ((0 - (7 * MaxWeeksBack + 8))..8) \cup {NoDate}

\* the schedules the call may be given: empty, with a game of teams 1 and 2,
\* with a game of two other teams
ProbeSchedules ==
    {NewSchedule,
     add_game(NewSchedule, GameAt(2, 1, _build_tsls(location_availability)[1])).s,
     add_game(NewSchedule, GameAt(3, 4, _build_tsls(location_availability)[1])).s}

InitRecent ==
    /\ NoController
    /\ max_games_per_week = 1
    /\ max_games_per_day = 1
    /\ call = [op |-> "none", ret |-> FALSE, path |-> ""]
    /\ schedule \in ProbeSchedules
    /\ \E pair \in {<<1, 2>>, <<2, 1>>, <<1, 3>>} : \E date \in HistoryDates :
       \E current_week \in {week_mapping[ts] : ts \in Timeslots} :
       \E weeks_back \in 1..MaxWeeksBack :
            probe = [pc |-> "call",
                     previous_games |-> <<[team_1_id |-> pair[1], team_2_id |-> pair[2],
                                           date |-> date,
                                           team_1_score |-> 1, team_2_score |-> 0]>>,
                     current_week |-> current_week,
                     weeks_back |-> weeks_back,
                     result |-> FALSE]

\* _teams_played_recently(1, 2, schedule, current_week, weeks_back) returns
TeamsPlayedRecentlyCall ==
    /\ probe.pc = "call"
    /\ probe' = [probe EXCEPT
                    !.pc = "done",
                    !.result = played_recently_among(probe.previous_games, schedule,
                                    1, 2, probe.current_week, probe.weeks_back)]
    /\ UNCHANGED <<schedule, max_games_per_week, max_games_per_day, call,
                   team_availability, division_preferred_locations, stop_after_phase,
                   pc, all_weeks, week_idx, ph, log, tsls, feasible_games, rerun,
                   timeout>>

NextRecent == TeamsPlayedRecentlyCall

SpecRecent == InitRecent /\ [][NextRecent]_vars

(***************************************************************************)
(* FeasibleGameGenerator.generate on rosters of its own.                   *)
(***************************************************************************)
\* the division of each team in the rosters a generator may be given: the
\* league's; division 1 with two divisions of one team; one division of all
\* teams; teams dealt to two divisions in turn; three divisions, the second
\* of one team
Rosters ==
    {[t \in Teams |-> team_lookup[t].division_id],
     [t \in Teams |-> IF t <= 4 THEN 1 ELSE t - 3],
     [t \in Teams |-> 1],
     [t \in Teams |-> 2 - (t % 2)],
     [t \in Teams |-> IF t = 1 THEN 2 ELSE IF t <= 3 THEN 3 ELSE 1]}

\* the keys of teams_by_division, a dict filled in roster order: the
\* divisions in the order of their first team
division_keys(division_of) ==
    SortByKey(Sorted({division_of[t] : t \in Teams}),
              [d \in {division_of[t] : t \in Teams} |->
                    Min({i \in 1..Len(teams) : division_of[teams[i]] = d})])

\* FeasibleGameGenerator.generate, from the k-th division of the roster on
RECURSIVE GenerateOver(_, _)
GenerateOver(division_of, k) ==
    IF k > Len(division_keys(division_of)) THEN <<>>
    ELSE PairsFrom(SelectSeq(teams, LAMBDA t :
                        division_of[t] = division_keys(division_of)[k]), 1, 2)
            \o GenerateOver(division_of, k + 1)

InitGenerate ==
    /\ schedule = NewSchedule
    /\ max_games_per_week = 1
    /\ max_games_per_day = 1
    /\ call = [op |-> "none", ret |-> FALSE, path |-> ""]
    /\ \E m \in ModelChoices :
            /\ tsls = m.tsls
            /\ team_availability = m.team_availability
    /\ division_preferred_locations = [defined |-> FALSE, map |-> EmptyDict]
    /\ stop_after_phase = NoPhase
    /\ pc = "idle"
    /\ all_weeks = <<>>
    /\ week_idx = 0
    /\ ph = [phase |-> NoPhase]
    /\ log = <<>>
    /\ feasible_games = <<>>
    /\ rerun = NoRerun
    /\ timeout = DefaultTimeout
    /\ \E division_of \in Rosters :
            probe = [pc |-> "call", division_of |-> division_of, result |-> <<>>]

\* FeasibleGameGenerator(model).generate() returns
GenerateCall ==
    /\ probe.pc = "call"
    /\ probe' = [probe EXCEPT !.pc = "done",
                              !.result = GenerateOver(probe.division_of, 1)]
    /\ feasible_games' = probe'.result
    /\ UNCHANGED <<schedule, max_games_per_week, max_games_per_day, call,
                   team_availability, division_preferred_locations, stop_after_phase,
                   pc, all_weeks, week_idx, ph, log, tsls, rerun, timeout>>

NextGenerate == GenerateCall

SpecGenerate == InitGenerate /\ [][NextGenerate]_vars

(***************************************************************************)
(* DataModel._build_week_mapping on timeslot lists of its own.  A date is  *)
(* a day number; day 0 is a Sunday.                                        *)
(***************************************************************************)
MaxDate == 16
MaxTimeslotList == 3

\* date.weekday(): Monday is 0, Sunday is 6
weekday(date) == (date + 6) % 7

\* the timeslot lists a DataModel may be given: the date of each timeslot,
\* in database order
TimeslotLists ==
    UNION {[1..n -> 0..MaxDate] : n \in 0..MaxTimeslotList}

\* _build_week_mapping that counts the weeks from the earliest date itself
week_mapping_from_earliest(timeslot_dates) ==
    IF timeslot_dates = <<>> THEN <<>>
    ELSE LET week_start_0 == Min(Range(timeslot_dates))
         IN [ts \in DOMAIN timeslot_dates |->
                LET week_num == (timeslot_dates[ts] - week_start_0) \div 7
                IN [week_num |-> week_num,
                    week_start |-> week_start_0 + 7 * week_num,
                    week_end |-> week_start_0 + 7 * week_num + 6]]

\* DataModel._build_week_mapping: timeslot -> (week number, week start,
\* week end), the weeks counted from the Sunday on or before the earliest date
_build_week_mapping(timeslot_dates) ==
    IF timeslot_dates = <<>> THEN <<>>
    ELSE LET min_date == Min(Range(timeslot_dates))
             days_since_sunday == (weekday(min_date) + 1) % 7
             week_start_0 == min_date - days_since_sunday
         IN [ts \in DOMAIN timeslot_dates |->
                LET days_diff == timeslot_dates[ts] - week_start_0
                    week_num == days_diff \div 7
                    this_week_start == week_start_0 + 7 * week_num
                IN [week_num |-> week_num,
                    week_start |-> this_week_start,
                    week_end |-> this_week_start + 6]]

InitWeeks ==
    /\ NoController
    /\ schedule = NewSchedule
    /\ max_games_per_week = 1
    /\ max_games_per_day = 1
    /\ call = [op |-> "none", ret |-> FALSE, path |-> ""]
    /\ \E timeslot_dates \in TimeslotLists :
            probe = [pc |-> "call", timeslots |-> timeslot_dates, result |-> <<>>]

\* DataModel.__init__ builds week_mapping
BuildWeekMappingCall ==
    /\ probe.pc = "call"
    /\ probe' = [probe EXCEPT !.pc = "done",
                              !.result = _build_week_mapping(probe.timeslots)]
    /\ UNCHANGED <<schedule, max_games_per_week, max_games_per_day, call,
                   team_availability, division_preferred_locations, stop_after_phase,
                   pc, all_weeks, week_idx, ph, log, tsls, feasible_games, rerun,
                   timeout>>

NextWeeks == BuildWeekMappingCall

SpecWeeks == InitWeeks /\ [][NextWeeks]_vars

(***************************************************************************)
(* Properties of the Schedule, stated on the game list.                    *)
(***************************************************************************)

Count(seq, x) == Cardinality({i \in 1..Len(seq) : seq[i] = x})

\* the two lists hold the same games the same number of times
SameBag(a, b) == \A x \in Range(a) \cup Range(b) : Count(a, x) = Count(b, x)

Involves(g, team) == g.teamA = team \/ g.teamB = team

\* the games of the list that a team plays on a day / in a week
GamesOnDay(s, team, day) ==
    {i \in 1..Len(s.games) :
        /\ Involves(s.games[i], team)
        /\ InDayMapping(s.games[i].timeslot_id)
        /\ day_mapping[s.games[i].timeslot_id] = day}

GamesInWeek(s, team, week_num) ==
    {i \in 1..Len(s.games) :
        /\ Involves(s.games[i], team)
        /\ InWeekMapping(s.games[i].timeslot_id)
        /\ week_mapping[s.games[i].timeslot_id] = week_num}

Days == {day_mapping[ts] : ts \in Timeslots}

Weeks == {week_mapping[ts] : ts \in Timeslots}

\* C1: no TSL id is bound to more than one game of the schedule, after any
\* sequence of add_game / remove_game calls.
C1_OneGamePerTsl ==
    \A i, j \in 1..Len(schedule.games) :
        (i # j /\ Truthy(schedule.games[i].tsl_id))
            => schedule.games[i].tsl_id # schedule.games[j].tsl_id

\* C1 witness: an add was rejected in a state where two TSLs of one timeslot
\* are bound and a further game on a bound TSL violates nothing but constraint 1.
C1_Witness ==
    /\ call = [op |-> "add_game", ret |-> FALSE, path |-> ""]
    /\ {1, 2} \subseteq schedule.used_tsls
    /\ \E g \in RawGames : _check_constraints(schedule, g) = <<"tsl_used">>

\* C3 (as claimed): no team has more than the configured max_games_per_day
\* games on one day.
C3_DailyCapAsConfigured ==
    \A team \in Teams, day \in Days :
        Cardinality(GamesOnDay(schedule, team, day)) <= max_games_per_day

\* C4 (as claimed): every scheduled game has two distinct roster teams of the
\* same division.
C4_SameDivisionDistinctTeams ==
    \A i \in 1..Len(schedule.games) :
        LET g == schedule.games[i]
        IN /\ g.teamA \in Teams
           /\ g.teamB \in Teams
           /\ g.teamA # g.teamB
           /\ team_lookup[g.teamA].division_id = team_lookup[g.teamB].division_id

\* the five invariants, read off the game list: would the list with this game
\* appended break one of them?
TslAlreadyUsed(s, g) ==
    Truthy(g.tsl_id) /\ \E i \in 1..Len(s.games) : s.games[i].tsl_id = g.tsl_id

DailyCapReached(s, g) ==
    /\ InDayMapping(g.timeslot_id)
    /\ \E team \in {g.teamA, g.teamB} \cap Teams :
           Cardinality(GamesOnDay(s, team, day_mapping[g.timeslot_id])) >= max_games_per_day

WeeklyCapReached(s, g) ==
    /\ InWeekMapping(g.timeslot_id)
    /\ \E team \in {g.teamA, g.teamB} \cap Teams :
           Cardinality(GamesInWeek(s, team, week_mapping[g.timeslot_id])) >= max_games_per_week

DifferentDivisions(g) == DivisionOf(g.teamA) # DivisionOf(g.teamB)

SelfPlay(g) == g.teamA = g.teamB

ViolatesInvariant(s, g) ==
    \/ TslAlreadyUsed(s, g)
    \/ DailyCapReached(s, g)
    \/ WeeklyCapReached(s, g)
    \/ DifferentDivisions(g)
    \/ SelfPlay(g)

\* C5 (as claimed): add_game of a game that violates one of the five invariants
\* returns False and leaves the game list and every index unchanged.
C5_ViolationRejectedUnchanged ==
    \A g \in RawGames :
        ViolatesInvariant(schedule, g) => add_game(schedule, g) = [ret |-> FALSE, s |-> schedule]

SameIndex(d1, d2) ==
    /\ DOMAIN d1 = DOMAIN d2
    /\ \A k \in DOMAIN d1 : SameBag(d1[k], d2[k])

SameSchedule(s1, s2) ==
    /\ SameBag(s1.games, s2.games)
    /\ s1.games_by_tsl = s2.games_by_tsl
    /\ SameIndex(s1.games_by_team_day, s2.games_by_team_day)
    /\ SameIndex(s1.games_by_team_week, s2.games_by_team_week)
    /\ s1.used_tsls = s2.used_tsls

C2_WeeklyCapInRun ==
    \A team \in Teams, week \in Weeks :
        Cardinality(GamesInWeek(schedule, team, week)) <= max_games_per_week

\* Phase 2 has just committed a game and a team stands at the weekly cap
C2_Witness ==
    /\ call = [op |-> "add_game", ret |-> TRUE, path |-> "2"]
    /\ \E team \in Teams, week \in Weeks :
            Cardinality(GamesInWeek(schedule, team, week)) = max_games_per_week

PhaseRank(p) ==
    IF p = "1A" THEN 1 ELSE IF p = "1B" THEN 2 ELSE IF p = "1C" THEN 3 ELSE 4

\* every phase that was entered is left before another is entered; within a
\* week the phases follow one another 1A, 1B, 1C, 2; a later week starts
\* with 1A, has a higher week number, and starts only after the previous
\* week's last phase (Phase 2, or the phase named by stop_after_phase)
LogInOrder ==
    \A i \in 1..Len(log) :
        /\ log[i].ev = IF i % 2 = 1 THEN "start" ELSE "end"
        /\ i % 2 = 0 =>
                log[i].week = log[i - 1].week /\ log[i].phase = log[i - 1].phase
        /\ i = 1 => log[i].phase = "1A"
        /\ (i % 2 = 1 /\ i > 1) =>
                \/ /\ log[i].week = log[i - 1].week
                   /\ PhaseRank(log[i].phase) = PhaseRank(log[i - 1].phase) + 1
                   /\ log[i - 1].phase # stop_after_phase
                \/ /\ log[i].week > log[i - 1].week
                   /\ log[i].phase = "1A"
                   /\ log[i - 1].phase \in {"2", stop_after_phase}

\* the Schedule changes only in a step of the one phase that is entered and
\* not yet left, for the week the loop stands at
WrittenByRunningPhase ==
    schedule' # schedule =>
        /\ pc \in {"1A", "1B", "1C", "2"}
        /\ Len(log) % 2 = 1
        /\ log[Len(log)].phase = pc
        /\ log[Len(log)].week = all_weeks[week_idx]

\* C8: the controller processes weeks in ascending order and within a week
\* runs 1A, 1B, 1C, 2 one after the other, each phase returning before the
\* next is called; no phase of a later week starts before the previous
\* week's pipeline has finished, and the Schedule is written only by the one
\* phase that is running.
C8_PhasesSequential == []LogInOrder /\ [][WrittenByRunningPhase]_vars

\* a full run over two weeks has returned: eight phases entered and left
C8_Witness ==
    /\ pc = "done"
    /\ stop_after_phase = NoPhase
    /\ Len(all_weeks) = 2
    /\ Len(log) = 16
    /\ Len(schedule.games) >= 3

\* the weeks in which some candidate game has a TSL
ViableWeeks ==
    UNION {{week_mapping[feasible_games[i].available_tsls[k].timeslot_id] :
                k \in {n \in 1..Len(feasible_games[i].available_tsls) :
                        InWeekMapping(feasible_games[i].available_tsls[n].timeslot_id)}} :
            i \in 1..Len(feasible_games)}

\* C9: the weeks the controller has processed when it returns are exactly
\* the weeks in which a candidate game has a viable TSL, whatever the
\* position of that TSL in the candidate's list.
C9_EveryViableWeekProcessed ==
    pc = "done" => {log[i].week : i \in 1..Len(log)} = ViableWeeks

\* C10 as stated: with stop_after_phase = X only the first week is
\* processed, and in it no phase after X.
C10_StopsAfterFirstWeek ==
    (stop_after_phase # NoPhase /\ all_weeks # <<>>) =>
        \A i \in 1..Len(log) :
            /\ log[i].week = all_weeks[1]
            /\ PhaseRank(log[i].phase) <= PhaseRank(stop_after_phase)

\* C10, amended: with stop_after_phase = X no phase after X runs in any
\* week, and the run does not end with the first week: when schedule()
\* returns, the phases 1A..X have run in every week of the week list.
C10_StopSkipsLaterPhasesEveryWeek ==
    stop_after_phase # NoPhase =>
        /\ \A i \in 1..Len(log) :
                PhaseRank(log[i].phase) <= PhaseRank(stop_after_phase)
        /\ pc = "done" =>
                {<<log[i].week, log[i].phase>> : i \in 1..Len(log)}
                    = {<<all_weeks[k], p>> :
                            k \in 1..Len(all_weeks),
                            p \in {q \in {"1A", "1B", "1C", "2"} :
                                        PhaseRank(q) <= PhaseRank(stop_after_phase)}}

\* a run stopped after Phase 1B has returned after two weeks
C10_Witness ==
    /\ pc = "done"
    /\ stop_after_phase = "1B"
    /\ Len(all_weeks) = 2
    /\ Len(log) = 8

(***************************************************************************)
(* Properties of schedule()'s handling of its candidate list.              *)
(***************************************************************************)

\* C11: a call of schedule with an empty candidate list ends by raising
\* RuntimeError before any phase has run: no week list, no phase banner, no
\* call on a Schedule, and no list of games is returned.
C11_EmptyCandidatesFail ==
    (feasible_games = <<>> /\ pc # "idle") =>
        /\ schedule_result.outcome = "raised"
        /\ schedule_result.error = "RuntimeError"
        /\ log = <<>>
        /\ all_weeks = <<>>
        /\ call.op = "none"
        /\ schedule = NewSchedule

\* C11 witness: schedule() was called with the empty list and has raised
C11_Witness ==
    /\ feasible_games = <<>>
    /\ pc = "failed"
    /\ ph.error = "RuntimeError"

\* C12 (as claimed): a call of schedule with a non-empty candidate list of
\* which no candidate maps to a week ends in a failure, not in a normal
\* (empty) result.
C12_UnmappedCandidatesFail ==
    (/\ feasible_games # <<>>
     /\ DOMAIN _group_games_by_week(feasible_games) = {}
     /\ pc # "idle") => schedule_result.outcome = "raised"

(***************************************************************************)
(* Properties of Phase 1A.                                                 *)
(***************************************************************************)

\* C13: while Phase 1A runs for a week, and when it has run (the state it
\* leaves is the last state it was in), no team has more than one game in
\* that week; a run that stops after Phase 1A returns at most one game per
\* team and week.
C13_Phase1AOneGamePerTeam ==
    /\ pc = "1A" =>
            \A t \in Teams : Cardinality(GamesInWeek(schedule, t, this_week)) <= 1
    /\ (pc = "done" /\ stop_after_phase = "1A") =>
            \A t \in Teams : \A k \in 1..Len(all_weeks) :
                Cardinality(GamesInWeek(schedule, t, all_weeks[k])) <= 1

\* C13 witness: Phase 1A ends (a round without a game) with two games in a
\* week in which the weekly cap and the free TSLs would admit a third
C13_Witness ==
    /\ pc = "1A"
    /\ ph.d > Len(divisions)
    /\ ph.games_this_round = 0
    /\ max_games_per_week = 2
    /\ Len(get_games_for_week(schedule, this_week)) = 2
    /\ \E t1, t2 \in Teams :
            /\ t1 # t2
            /\ team_lookup[t1].division_id = team_lookup[t2].division_id
            /\ Cardinality(GamesInWeek(schedule, t1, this_week)) = 1
            /\ \E i \in 1..Len(tsls) :
                    /\ tsls[i].timeslot_id \in team_availability[t1]
                    /\ tsls[i].timeslot_id \in team_availability[t2]
                    /\ week_mapping[tsls[i].timeslot_id] = this_week
                    /\ add_game(schedule, GameAt(t1, t2, tsls[i])).ret

\* the teams with a game in the week
covered_teams(s, week_num) ==
    {t \in Teams : GamesInWeek(s, t, week_num) # {}}

C15_Scenario ==
    /\ tsls = _build_tsls(full_week_availability)
    /\ team_availability = [t \in Teams |-> IF t <= 4 THEN Timeslots ELSE {}]
    /\ max_games_per_week = 2
    /\ feasible_games = generate

\* C15: in that league Phase 1A has covered all four teams with two games
\* when its second round ends, and ends with exactly these two games;
\* Phases 1B and 1C add none, Phase 2 adds at most two, and no team ever has
\* more than two games.
C15_FourTeamsSixTsls ==
    C15_Scenario =>
        /\ (pc = "1A" /\ ph.round_num > 2) =>
                /\ Len(schedule.games) = 2
                /\ covered_teams(schedule, 0) = 1..4
        /\ (pc = "1A" /\ ph.d > Len(divisions) /\ ph.games_this_round = 0) =>
                ph.round_num = 3
        /\ pc \in {"1B", "1C"} => Len(schedule.games) = 2
        /\ pc \in {"2", "done", "failed"} =>
                /\ Len(schedule.games) >= 2
                /\ Len(schedule.games) <= 4
        /\ \A t \in Teams : Cardinality(GamesInWeek(schedule, t, 0)) <= 2

\* C15 witness: the run has returned four games, two per team: the two of
\* Phase 1A and two more of Phase 2
C15_Witness ==
    /\ C15_Scenario
    /\ pc = "done"
    /\ stop_after_phase = NoPhase
    /\ Len(schedule.games) = 4
    /\ \A t \in 1..4 : Cardinality(GamesInWeek(schedule, t, 0)) = 2

(***************************************************************************)
(* Properties of Phases 1B and 1C.                                         *)
(***************************************************************************)

\* the TSLs two teams could both play at
CommonTsls(team_a, team_b) ==
    {i \in TslIds :
        tsls[i].timeslot_id \in team_availability[team_a] \cap team_availability[team_b]}

\* the games of a list that are bound to a TSL
GamesAtTsl(games, tsl_id) == {i \in 1..Len(games) : games[i].tsl_id = tsl_id}

\* C16 (as claimed): when two teams of a division share exactly one TSL and
\* Phase 1A has ended with that TSL bound to a game of two other teams, no
\* game bound to that TSL names either of the two teams afterwards.
C16_ConsumedTslNeverRebound ==
    \A k \in 1..Len(log) :
        (log[k].phase = "1A" /\ log[k].ev = "end") =>
            \A team_a, team_b \in Teams :
                (/\ team_a # team_b
                 /\ team_lookup[team_a].division_id = team_lookup[team_b].division_id
                 /\ Cardinality(CommonTsls(team_a, team_b)) = 1) =>
                    \A tsl_id \in CommonTsls(team_a, team_b) :
                        (/\ GamesAtTsl(log[k].games, tsl_id) # {}
                         /\ \A i \in GamesAtTsl(log[k].games, tsl_id) :
                                /\ ~Involves(log[k].games[i], team_a)
                                /\ ~Involves(log[k].games[i], team_b)) =>
                            \A i \in GamesAtTsl(schedule.games, tsl_id) :
                                /\ ~Involves(schedule.games[i], team_a)
                                /\ ~Involves(schedule.games[i], team_b)

\* two teams of a division whose only common TSL is tsl_id
SharesOnly(team_a, team_b, tsl_id) ==
    /\ team_a # team_b
    /\ team_lookup[team_a].division_id = team_lookup[team_b].division_id
    /\ CommonTsls(team_a, team_b) = {tsl_id}

\* Phase 1A has ended with the TSL bound to a game of two other teams
ConsumedIn1A(team_a, team_b, tsl_id) ==
    \E k \in 1..Len(log) :
        /\ log[k].phase = "1A"
        /\ log[k].ev = "end"
        /\ GamesAtTsl(log[k].games, tsl_id) # {}
        /\ \A i \in GamesAtTsl(log[k].games, tsl_id) :
                ~Involves(log[k].games[i], team_a) /\ ~Involves(log[k].games[i], team_b)

\* the teams of the games bound to a TSL
TeamsAt(s, tsl_id) ==
    UNION {{s.games[i].teamA, s.games[i].teamB} : i \in GamesAtTsl(s.games, tsl_id)}

\* the consumed TSL holds exactly one game
ConsumedTslHeld ==
    \A team_a, team_b \in Teams : \A tsl_id \in TslIds :
        (SharesOnly(team_a, team_b, tsl_id) /\ ConsumedIn1A(team_a, team_b, tsl_id)) =>
            Cardinality(GamesAtTsl(schedule.games, tsl_id)) = 1

\* the teams at the consumed TSL change only in a committed substitution of
\* Phase 1C: one team of the game stays, the other is replaced by a team
\* that had no game in the week and gets a game at another TSL of the week
ConsumedTslOnlySubstituted ==
    \A team_a, team_b \in Teams : \A tsl_id \in TslIds :
        (/\ SharesOnly(team_a, team_b, tsl_id)
         /\ ConsumedIn1A(team_a, team_b, tsl_id)
         /\ TeamsAt(schedule', tsl_id) # TeamsAt(schedule, tsl_id)) =>
            /\ pc = "1C"
            /\ call' = [op |-> "_apply_swap", ret |-> TRUE, path |-> "swapped"]
            /\ Cardinality(TeamsAt(schedule', tsl_id) \cap TeamsAt(schedule, tsl_id)) = 1
            /\ \A t \in TeamsAt(schedule', tsl_id) \ TeamsAt(schedule, tsl_id) :
                    t \notin scheduled_team_ids(schedule, this_week)
            /\ \A t \in TeamsAt(schedule, tsl_id) \ TeamsAt(schedule', tsl_id) :
                    \E i \in 1..Len(schedule'.games) :
                        /\ Involves(schedule'.games[i], t)
                        /\ schedule'.games[i].tsl_id # tsl_id
                        /\ week_mapping[schedule'.games[i].timeslot_id] = this_week

\* C16, amended: when two teams of a division share exactly one TSL and
\* Phase 1A has ended with that TSL bound to a game of two other teams, the
\* TSL holds exactly one game from then on; Phase 1B binds nobody to it, and
\* a team (one of the two included) enters the game at that TSL only by a
\* committed substitution of Phase 1C, replacing one of its teams.
C16_ConsumedTslOnlySubstituted ==
    []ConsumedTslHeld /\ [][ConsumedTslOnlySubstituted]_vars

\* C16 witness: teams 3 and 4 share TSL 3 only, Phase 1A bound it to teams
\* 2 and 1, and Phase 1C has put team 3 in team 1's place
C16_Witness ==
    /\ SharesOnly(3, 4, 3)
    /\ ConsumedIn1A(3, 4, 3)
    /\ call = [op |-> "_apply_swap", ret |-> TRUE, path |-> "swapped"]
    /\ TeamsAt(schedule, 3) = {2, 3}

\* the five Schedule invariants, read off the game list
FiveInvariants(s) ==
    /\ \A i, j \in 1..Len(s.games) :
            (i # j /\ Truthy(s.games[i].tsl_id)) => s.games[i].tsl_id # s.games[j].tsl_id
    /\ \A team \in Teams, day \in Days :
            Cardinality(GamesOnDay(s, team, day)) <= max_games_per_day
    /\ \A team \in Teams, week \in Weeks :
            Cardinality(GamesInWeek(s, team, week)) <= max_games_per_week
    /\ \A i \in 1..Len(s.games) :
            /\ ~DifferentDivisions(s.games[i])
            /\ ~SelfPlay(s.games[i])

\* the TSLs of the current week that a team could play at with some other
\* team of a set
SharedTsls(team, peers) ==
    {i \in TslIds :
        /\ InWeekMapping(tsls[i].timeslot_id)
        /\ week_mapping[tsls[i].timeslot_id] = this_week
        /\ \E peer \in peers \ {team} :
                tsls[i].timeslot_id \in team_availability[team] \cap team_availability[peer]}

\* Phase 1C stands before the only unscheduled team of a division, whose
\* only TSL shared with a peer holds a game; an occupant of that game has
\* exactly one unused TSL, alt, shared with a team that is neither the
\* unscheduled team nor an occupant, and it shares that TSL with third
SwapScenario(unscheduled, tsl_id, occupant, third, alt) ==
    /\ pc = "1C"
    /\ ph.todo = <<unscheduled>>
    /\ LET div_teams == teams_by_division(divisions[ph.d])
           occupants == TeamsAt(schedule, tsl_id)
       IN /\ _get_unscheduled_teams_for_week(schedule, div_teams, this_week)
                = <<unscheduled>>
          /\ SharedTsls(unscheduled, Range(div_teams)) = {tsl_id}
          /\ Cardinality(GamesAtTsl(schedule.games, tsl_id)) = 1
          /\ occupant \in occupants
          /\ third \in Range(div_teams) \ (occupants \cup {unscheduled})
          /\ {i \in SharedTsls(occupant, Range(div_teams) \ (occupants \cup {unscheduled})) :
                    ~is_tsl_used(schedule, i)} = {alt}
          /\ tsls[alt].timeslot_id \in team_availability[third]

\* the games of one list that are not in the other
GamesNotIn(a, b) == {i \in 1..Len(a) : Count(b, a[i]) = 0}

\* the swap of the scenario has been performed
SwapPerformed(before, after, unscheduled, tsl_id, occupant, third, alt) ==
    /\ unscheduled \in TeamsAt(after, tsl_id)
    /\ occupant \notin TeamsAt(after, tsl_id)
    /\ TeamsAt(after, alt) = {occupant, third}
    /\ Cardinality(GamesNotIn(after.games, before.games)) = 2
    /\ FiveInvariants(after)

\* the statement of C17 for one step: when exactly one team is
\* unscheduled, its only TSL shared with a peer is occupied by a game and an occupant of that game has
\* exactly one alternative unused TSL with a third team, the step of Phase 1C
\* for the unscheduled team performs the swap: the unscheduled team plays at
\* the freed TSL, the displaced occupant plays the third team at its
\* alternative TSL and no longer at the pre-swap TSL, exactly two games are
\* new or changed, and the five invariants hold.
C17_Phase1CSwapStep ==
    \A unscheduled \in Teams :
        (/\ \E tsl_id, alt \in TslIds : \E occupant, third \in Teams :
                SwapScenario(unscheduled, tsl_id, occupant, third, alt)
         /\ ph' # ph) =>
            \E tsl_id, alt \in TslIds : \E occupant, third \in Teams :
                /\ SwapScenario(unscheduled, tsl_id, occupant, third, alt)
                /\ SwapPerformed(schedule, schedule', unscheduled, tsl_id,
                                 occupant, third, alt)

\* C17 (as claimed), over every step of a run: in the scenario Phase 1C
\* performs the swap.
C17_SwapPerformed == [][C17_Phase1CSwapStep]_vars

\* the scenario of C17 is reached
C17_ScenarioReached ==
    \E unscheduled, occupant, third \in Teams : \E tsl_id, alt \in TslIds :
        SwapScenario(unscheduled, tsl_id, occupant, third, alt)

(***************************************************************************)
(* Properties of the result.                                               *)
(***************************************************************************)
\* the teams of a list of games
TeamsOf(games) ==
    {games[i].teamA : i \in 1..Len(games)} \cup {games[i].teamB : i \in 1..Len(games)}

\* the teams FeasibleGameGenerator.generate emits no candidate game for
TeamsWithoutCandidate == Teams \ TeamsOf(generate)

\* the warning names the team
NamedUnscheduled(warnings, team) ==
    \E i \in 1..Len(warnings.unscheduled) :
        <<team_name(team), get_division_name(team_lookup[team].division_id)>>
            \in warnings.unscheduled[i].details

\* C18: a team for which the generator emits no candidate game is in no game
\* of the schedule (at any moment of the run, so in the output too), and when
\* schedule() has returned, every team of the roster without a game in the
\* returned list is named in the unscheduled-teams warning built from it.
C18_NoCandidateNoGameAndReported ==
    /\ \A team \in TeamsWithoutCandidate : team \notin TeamsOf(schedule.games)
    /\ schedule_result.outcome = "returned" =>
            \A team \in Range(teams) \ TeamsOf(schedule_result.games) :
                NamedUnscheduled(_generate_warnings(schedule_result.games, feasible_games),
                                 team)

\* C18 witness: schedule() has returned games of division 1, whose team 3
\* was free at no timeslot: the generator emitted candidates, none for team 3
C18_Witness ==
    /\ schedule_result.outcome = "returned"
    /\ feasible_games = generate
    /\ 3 \in TeamsWithoutCandidate
    /\ TeamsOf(schedule_result.games) \cap {1, 2, 4} # {}
    /\ NamedUnscheduled(_generate_warnings(schedule_result.games, feasible_games), 3)

(***************************************************************************)
(* Properties across weeks.                                                *)
(***************************************************************************)
Running == pc \in {"1A", "1B", "1C", "2"}

\* the games of a list bound to timeslots of a week
WeekGames(games, week_num) ==
    {g \in Range(games) :
        InWeekMapping(g.timeslot_id) /\ week_mapping[g.timeslot_id] = week_num}

\* the used TSLs of a week
WeekUsedTsls(s, week_num) ==
    {i \in s.used_tsls \cap TslIds :
        InWeekMapping(tsls[i].timeslot_id) /\ week_mapping[tsls[i].timeslot_id] = week_num}

\* a step taken while the loop stands at a week leaves the games and the
\* used TSLs of every other week as they are
OtherWeeksUnchanged ==
    Running =>
        \A week \in Weeks \ {this_week} :
            /\ WeekGames(schedule'.games, week) = WeekGames(schedule.games, week)
            /\ WeekUsedTsls(schedule', week) = WeekUsedTsls(schedule, week)

\* the weeks whose pipeline has finished
FinishedWeeks ==
    {log[k].week : k \in 1..Len(log)} \ (IF Running THEN {this_week} ELSE {})

\* the games the schedule held when the pipeline of a finished week returned
CommittedIn(week) ==
    LET last == CHOOSE k \in 1..Len(log) :
                    log[k].week = week /\ \A j \in (k + 1)..Len(log) : log[j].week # week
    IN WeekGames(log[last].games, week)

\* the games of the weeks already processed are in the Schedule, with their
\* TSLs used, and the total game count of a team counts them
EarlierWeeksKept ==
    /\ \A week \in FinishedWeeks :
            /\ CommittedIn(week) = WeekGames(schedule.games, week)
            /\ \A g \in CommittedIn(week) : is_tsl_used(schedule, g.tsl_id)
    /\ Running =>
            \A team \in Teams :
                _get_total_game_count(schedule, team)
                    = team_season_games(team)
                        + Cardinality(GamesInWeek(schedule, team, this_week))
                        + Cardinality({i \in 1..Len(schedule.games) :
                                /\ Involves(schedule.games[i], team)
                                /\ schedule.games[i] \in
                                        UNION {CommittedIn(week) : week \in FinishedWeeks}})

\* C19: while the controller processes week w, the games bound to timeslots
\* of any other week (and the used TSLs of those weeks) are unchanged; the
\* games and used TSLs committed in earlier weeks are still in the Schedule
\* when later weeks are processed, and the total game count used in week w
\* counts them.
C19_OtherWeeksPersist == []EarlierWeeksKept /\ [][OtherWeeksUnchanged]_vars

\* C19 witness: the loop stands at the second week, in Phase 2, a team holds
\* a game of the first week and one committed in this week, and its total
\* game count is two above its season games
C19_Witness ==
    /\ pc = "2"
    /\ week_idx = 2
    /\ \E team \in Teams :
            /\ Cardinality(GamesInWeek(schedule, team, all_weeks[1])) = 1
            /\ Cardinality(GamesInWeek(schedule, team, all_weeks[2])) = 1
            /\ _get_total_game_count(schedule, team) = team_season_games(team) + 2

(***************************************************************************)
(* Properties of Phase 1A's order.                                         *)
(***************************************************************************)
\* C20 (as claimed): at each Phase 1A division visit, the team for which an
\* opponent is sought first has the lowest total game count (season games
\* plus games committed in this run) among the division's teams without a
\* game in the current week.
C20_FirstSoughtHasFewestGames ==
    (pc = "1A" /\ ph.d <= Len(divisions)) =>
        LET teams_without_games ==
                _get_unscheduled_teams_sorted(schedule,
                    teams_by_division(divisions[ph.d]), this_week)
        IN Len(teams_without_games) >= 2 =>
                \A team \in Range(teams_without_games) :
                    _get_total_game_count(schedule, teams_without_games[1])
                        <= _get_total_game_count(schedule, team)

(***************************************************************************)
(* Properties of the TSL choice and of the opponent choice.                *)
(***************************************************************************)
\* the rank of a TSL for a pair in the order teamPreferred+Sunday >
\* divisionPreferred+Sunday > anySunday > teamPreferred > divisionPreferred
\* > any
TierRank(tsl, team1_id, team2_id) ==
    LET is_sunday == day_mapping[tsl.timeslot_id] % 7 = 0
        is_team_pref ==
            \E t \in {team1_id, team2_id} :
                Truthy(preferred_location_id(t)) /\ preferred_location_id(t) = tsl.location_id
        is_div_pref == tsl.location_id \in div_pref_locs(team_lookup[team1_id].division_id)
    IN IF is_team_pref /\ is_sunday THEN 1
       ELSE IF is_div_pref /\ is_sunday THEN 2
       ELSE IF is_sunday THEN 3
       ELSE IF is_team_pref THEN 4
       ELSE IF is_div_pref THEN 5
       ELSE 6

\* the TSLs of the current week at a timeslot both teams are available, and
\* unused
OpenTsls(s, team1_id, team2_id, week_num) ==
    {i \in TslIds :
        /\ tsls[i].timeslot_id \in team_availability[team1_id] \cap team_availability[team2_id]
        /\ week_mapping[tsls[i].timeslot_id] = week_num
        /\ i \notin s.used_tsls}

\* a step in which the running phase commits one more game
Commits(p) ==
    /\ pc = p
    /\ Len(schedule'.games) = Len(schedule.games) + 1

\* the game a committing step has appended
Committed == schedule'.games[Len(schedule'.games)]

\* the committed game's TSL has the best rank among the pair's open TSLs
BoundInTopTier ==
    LET g == Committed
    IN \A i \in OpenTsls(schedule, g.teamA, g.teamB, this_week) :
            TierRank(tsls[g.tsl_id], g.teamA, g.teamB) <= TierRank(tsls[i], g.teamA, g.teamB)

\* C21 (as claimed): whenever Phase 1A, 1B or 2 binds a pair to a TSL, the
\* TSL belongs to the highest non-empty tier of the six-tier order, taken
\* over the pair's TSLs in the current week, at a timeslot both teams are
\* available, and unused.
C21_BoundInTopTier ==
    [][(Commits("1A") \/ Commits("1B") \/ Commits("2")) => BoundInTopTier]_vars

\* a step in which the running phase commits the game its pairing loop has
\* returned
PairingCommits(p) ==
    /\ Commits(p)
    /\ call' = [op |-> "add_game", ret |-> TRUE, path |-> p]

\* the opponents a phase's pairing loop goes through for a focal team:
\* Phase 1A the unscheduled teams after it in strength order, Phases 1B and 2
\* the other teams of the division under the weekly limit
CandidateList(p, focal) ==
    LET div_teams == teams_by_division(team_lookup[focal].division_id)
        order == _get_unscheduled_teams_sorted(schedule, div_teams, this_week)
    IN IF p = "1A"
       THEN {order[j] : j \in {j \in 1..Len(order) :
                                \E i \in 1..(j - 1) : order[i] = focal}}
       ELSE {t \in Range(div_teams) \ {focal} :
                Cardinality(GamesInWeek(schedule, t, this_week)) < max_games_per_week}

\* the committed pair had met recently only if the focal team (teamA of the
\* game) had no opponent in its list, not met recently, with an open TSL
RecentOnlyAsFallback(p) ==
    LET g == Committed
    IN _teams_played_recently(schedule, g.teamA, g.teamB, this_week, 3) =>
            \A t \in CandidateList(p, g.teamA) :
                _teams_played_recently(schedule, g.teamA, t, this_week, 3)
                    \/ OpenTsls(schedule, g.teamA, t, this_week) = {}

\* C22: in Phases 1A, 1B and 2, the pairing loop commits a game of a focal
\* team with an opponent it has played recently only if no opponent of its
\* candidate list that it has not played recently can be bound to a TSL.
C22_RecentOnlyAsFallback ==
    [][\A p \in {"1A", "1B", "2"} : PairingCommits(p) => RecentOnlyAsFallback(p)]_vars

\* C22 witness: a pairing loop has just committed a game of two teams that
\* had met recently
C22_Witness ==
    /\ call.op = "add_game"
    /\ call.ret
    /\ Len(schedule.games) >= 1
    /\ LET g == schedule.games[Len(schedule.games)]
           before == [schedule EXCEPT !.games = SubSeq(@, 1, Len(@) - 1)]
       IN _teams_played_recently(before, g.teamA, g.teamB,
                                 week_mapping[g.timeslot_id], 3)

(***************************************************************************)
(* Properties of _teams_played_recently.                                   *)
(***************************************************************************)
\* a game of the history between teams 1 and 2 is dated from 1 day to
\* 7 * lookback days before the start of the week
HistoricalWithin(games_before, current_week, lookback) ==
    \E i \in 1..Len(games_before) :
        /\ {games_before[i].team_1_id, games_before[i].team_2_id} = {1, 2}
        /\ games_before[i].date # NoDate
        /\ 7 * current_week - games_before[i].date >= 1
        /\ 7 * current_week - games_before[i].date <= 7 * lookback

\* C23 (as claimed): playedRecently(a, b, currentWeek, lookback) is true
\* exactly when some historical game between a and b is dated from 1 day to
\* 7 * lookback days before the start of currentWeek, or the Schedule
\* already contains a game between a and b.
C23_RecentExactlyWithinLookback ==
    probe.pc = "done" =>
        (probe.result <=>
            \/ HistoricalWithin(probe.previous_games, probe.current_week, probe.weeks_back)
            \/ \E i \in 1..Len(schedule.games) :
                    {schedule.games[i].teamA, schedule.games[i].teamB} = {1, 2})

(***************************************************************************)
(* Properties of Phase 1A's rounds.                                        *)
(***************************************************************************)
\* the games committed since the running phase was entered
CommittedInPhase == Len(schedule.games) - Len(log[Len(log)].games)

\* in Phase 1A the round number is at most the games committed plus one,
\* every committed game holds a TSL of the week of its own, and a round
\* visits each division once
RoundsBounded ==
    pc = "1A" =>
        /\ ph.round_num <= CommittedInPhase + 1
        /\ CommittedInPhase <= Cardinality(WeekUsedTsls(schedule, this_week))
        /\ ph.d <= Len(divisions) + 1

\* a division visit counts the game it commits and never ends the phase; at
\* the end of a round the phase returns if and only if the round has
\* committed no game
StopsAfterEmptyRound ==
    /\ (pc = "1A" /\ ph.d <= Len(divisions)) =>
            /\ pc' = "1A"
            /\ log' = log
            /\ ph'.round_num = ph.round_num
            /\ ph'.games_this_round - ph.games_this_round
                    = Len(schedule'.games) - Len(schedule.games)
    /\ (pc = "1A" /\ ph.d > Len(divisions)) =>
            /\ schedule' = schedule
            /\ IF ph.games_this_round = 0
               THEN log' # log
               ELSE /\ log' = log
                    /\ pc' = "1A"
                    /\ ph'.round_num = ph.round_num + 1
                    /\ ph'.games_this_round = 0

\* C24: Phase 1A stops exactly after the first round in which no division
\* commits a game, and it always terminates: the number of its rounds is at
\* most the number of games it has committed plus one, which is at most the
\* number of TSLs of the week plus one.
C24_Phase1ARoundsEnd == []RoundsBounded /\ [][StopsAfterEmptyRound]_vars

\* C24 witness: Phase 1A is at the end of its third round, which committed
\* nothing, after two rounds that committed one game each
C24_Witness ==
    /\ pc = "1A"
    /\ ph.d > Len(divisions)
    /\ ph.round_num = 3
    /\ ph.games_this_round = 0
    /\ CommittedInPhase = 2

(***************************************************************************)
(* Properties of Phase 1B.                                                 *)
(***************************************************************************)
\* Phase 1B is about to try a team: the team has no game in the week
AttemptsUnscheduledOnly ==
    (pc = "1B" /\ ph.todo # <<>>) =>
        GamesInWeek(schedule, Head(ph.todo), this_week) = {}

\* a game Phase 1B commits is the game of the team it is trying, which had
\* no game in the week, against another team of its division that was under
\* the weekly limit
CommitsForUnscheduled ==
    Commits("1B") =>
        LET g == Committed
        IN /\ g.teamA = Head(ph.todo)
           /\ GamesInWeek(schedule, g.teamA, this_week) = {}
           /\ g.teamB # g.teamA
           /\ team_lookup[g.teamB].division_id = team_lookup[g.teamA].division_id
           /\ Cardinality(GamesInWeek(schedule, g.teamB, this_week)) < max_games_per_week

\* C25: Phase 1B attempts a pairing only for a team that has no game in the
\* current week at the moment of the attempt, and only against a team of the
\* same division with fewer than max_games_per_week games this week; every
\* game it commits includes a team that had no game in the week before the
\* commit.
C25_Phase1BForUnscheduled == []AttemptsUnscheduledOnly /\ [][CommitsForUnscheduled]_vars

\* C25 witness: Phase 1B has just committed a game of a team that had no
\* game with an opponent that had one already
C25_Witness ==
    /\ pc = "1B"
    /\ call = [op |-> "add_game", ret |-> TRUE, path |-> "1B"]
    /\ LET g == schedule.games[Len(schedule.games)]
       IN /\ Cardinality(GamesInWeek(schedule, g.teamA, this_week)) = 1
          /\ Cardinality(GamesInWeek(schedule, g.teamB, this_week)) = 2

(***************************************************************************)
(* Properties of Phase 1C's swaps.                                         *)
(***************************************************************************)
\* the teams Phase 1C has still to try are teams of the division it stands
\* at, each once
TodoDistinct ==
    (pc = "1C" /\ ph.d >= 1) =>
        /\ \A i, j \in 1..Len(ph.todo) : i # j => ph.todo[i] # ph.todo[j]
        /\ \A i \in 1..Len(ph.todo) :
                team_lookup[ph.todo[i]].division_id = divisions[ph.d]

\* the games a step removes from, and adds to, the schedule
Removed == {g \in Range(schedule.games) : g \notin Range(schedule'.games)}

Added == {g \in Range(schedule'.games) : g \notin Range(schedule.games)}

\* a step of Phase 1C either goes on to the next division, with no team
\* left to try, or tries the first team left and drops it from the list;
\* only the latter changes the games, by one displacement: one game removed,
\* the same game with the tried team in place of one of its teams and one
\* further game added
OneSwapPerTeam ==
    pc = "1C" =>
        /\ \/ /\ ph.todo # <<>>
              /\ ph'.d = ph.d
              /\ ph'.todo = Tail(ph.todo)
           \/ /\ ph.todo = <<>>
              /\ Removed = {}
              /\ Added = {}
              /\ pc' = "1C" => ph'.d = ph.d + 1
        /\ (Removed # {} \/ Added # {}) =>
              /\ Cardinality(Removed) = 1
              /\ Cardinality(Added) = 2
              /\ \E original \in Removed : \E modified \in Added :
                    /\ modified.tsl_id = original.tsl_id
                    /\ Involves(modified, Head(ph.todo))
                    /\ ~Involves(original, Head(ph.todo))

\* C26: in one Phase 1C pass over a week at most one displacement is
\* committed for each unscheduled team: the team is dropped from the list of
\* teams to try by the step that tries it, so after a swap for it no further
\* game is removed or rebound on its behalf.
C26_OneSwapPerTeam == []TodoDistinct /\ [][OneSwapPerTeam]_vars

\* C26 witness: Phase 1C has committed a swap for a team and has another
\* team of the division left to try
C26_Witness ==
    /\ pc = "1C"
    /\ call = [op |-> "_apply_swap", ret |-> TRUE, path |-> "swapped"]
    /\ ph.todo # <<>>

\* the other team of a game
OtherTeam(g, team) == IF g.teamA = team THEN g.teamB ELSE g.teamA

\* a committed swap: the newly scheduled team takes the freed TSL against
\* the remaining occupant, and the displaced team's replacement game is at
\* another TSL of the current week, unused before, against a team of the
\* division that is none of the three
SwapAsVerified ==
    (pc = "1C" /\ Removed # {}) =>
        \E original \in Removed : \E modified, replacement \in Added :
            LET new_team == Head(ph.todo)
                remaining == OtherTeam(modified, new_team)
                displaced == OtherTeam(original, remaining)
                opponent == OtherTeam(replacement, displaced)
            IN /\ modified.tsl_id = original.tsl_id
               /\ modified.timeslot_id = original.timeslot_id
               /\ Involves(modified, new_team)
               /\ Involves(original, remaining)
               /\ displaced # remaining
               /\ ~Involves(modified, displaced)
               /\ Involves(replacement, displaced)
               /\ replacement.tsl_id # original.tsl_id
               /\ ~is_tsl_used(schedule, replacement.tsl_id)
               /\ week_mapping[replacement.timeslot_id] = this_week
               /\ opponent \notin {new_team, remaining, displaced}
               /\ team_lookup[opponent].division_id = team_lookup[displaced].division_id

\* C27: in every committed Phase 1C swap, the displaced team's replacement
\* game is bound to a TSL that differs from the freed TSL, was unused before
\* the swap and lies in the current week, against a team of the same
\* division that is neither the newly scheduled team nor the remaining
\* occupant; the newly scheduled team takes exactly the freed TSL against
\* the remaining occupant.
C27_SwapAsVerified == [][SwapAsVerified]_vars

\* C27 witness: a swap has been committed; the last two games of the list
\* are the game at the freed TSL and the replacement game, at another TSL,
\* of two other teams
C27_Witness ==
    /\ call = [op |-> "_apply_swap", ret |-> TRUE, path |-> "swapped"]
    /\ Len(schedule.games) >= 2
    /\ LET modified == schedule.games[Len(schedule.games) - 1]
           replacement == schedule.games[Len(schedule.games)]
       IN /\ replacement.tsl_id # modified.tsl_id
          /\ {replacement.teamA, replacement.teamB}
                \cap {modified.teamA, modified.teamB} = {}

\* totalGameCount: the team's games of the season so far plus its games in
\* the schedule of this run, whatever their week
TotalGameCount(team) ==
    Cardinality({i \in 1..Len(previous_games) :
                    team \in {previous_games[i].team_1_id, previous_games[i].team_2_id}})
        + Cardinality({i \in 1..Len(schedule.games) : Involves(schedule.games[i], team)})

\* the teams the current division's generator has marked as attempted
AttemptedTeams ==
    IF divisions[ph.d] \in DOMAIN ph.division_generators
    THEN ph.division_generators[divisions[ph.d]]
    ELSE {}

\* the teams of the current division with spare weekly capacity that are not
\* marked as attempted
SpareTeams ==
    {t \in Range(teams_by_division(divisions[ph.d])) :
        /\ Cardinality(GamesInWeek(schedule, t, this_week)) < max_games_per_week
        /\ t \notin AttemptedTeams}

\* a turn of a Phase 2 generator
GeneratorTurn == pc = "2" /\ pc' = "2" /\ ph.d <= Len(divisions)

\* the focal teams a generator turn shows: the first team of the game it
\* yields, the team it marks as attempted
FocalTeams ==
    (IF Len(schedule'.games) = Len(schedule.games) + 1 THEN {Committed.teamA} ELSE {})
        \cup (IF divisions[ph.d] \in DOMAIN ph'.division_generators
              THEN ph'.division_generators[divisions[ph.d]] \ AttemptedTeams
              ELSE {})

\* the focal team has spare capacity, is not marked, and no such team has
\* fewer games in total
FocalSelectedFairly ==
    GeneratorTurn =>
        \A focal \in FocalTeams :
            /\ focal \in SpareTeams
            /\ \A t \in SpareTeams : TotalGameCount(focal) <= TotalGameCount(t)

\* C28: each time the Phase 2 generator of a division selects a focal team,
\* that team has fewer than max_games_per_week games in the current week and
\* the minimum totalGameCount (season count plus all games committed in this
\* run, across all weeks) among the division's teams that have spare weekly
\* capacity and are not marked as attempted in the current pass.
C28_FocalSelectedFairly == [][FocalSelectedFairly]_vars

\* C28 witness: a generator has yielded a game the schedule accepted, for a
\* focal team that was preferred to a team with more games in total, while
\* another team of the division was marked as attempted or at the weekly
\* limit
C28_Witness ==
    /\ pc = "2"
    /\ call = [op |-> "add_game", ret |-> TRUE, path |-> "2"]
    /\ LET g == schedule.games[Len(schedule.games)]
           div_teams == Range(teams_by_division(g.division_id))
       IN /\ \E t \in div_teams \ {g.teamA, g.teamB} :
                /\ Cardinality(GamesInWeek(schedule, t, this_week)) < max_games_per_week
                /\ TotalGameCount(t) > TotalGameCount(g.teamA) - 1
          /\ \E t \in div_teams \ {g.teamA, g.teamB} :
                \/ Cardinality(GamesInWeek(schedule, t, this_week)) >= max_games_per_week
                \/ /\ g.division_id \in DOMAIN ph.division_generators
                   /\ t \in ph.division_generators[g.division_id]

\* the games between two distinct teams of one division, at an unused TSL of
\* the week at a timeslot both are available, that a schedule would accept
StillAcceptable(s, week_num) ==
    {g \in {GameAt(a, b, tsls[k]) : a \in Teams, b \in Teams, k \in DOMAIN tsls} :
        /\ g.teamA # g.teamB
        /\ team_lookup[g.teamA].division_id = team_lookup[g.teamB].division_id
        /\ InWeekMapping(g.timeslot_id)
        /\ week_mapping[g.timeslot_id] = week_num
        /\ g.timeslot_id \in team_availability[g.teamA] \cap team_availability[g.teamB]
        /\ ~is_tsl_used(s, g.tsl_id)
        /\ add_game(s, g).ret}

\* Phase 2 returns for the week
Phase2Returns == pc = "2" /\ pc' \in {"1A", "done"}

\* C29 (as claimed): after Phase 2 has completed for a week, round-robin
\* followed by the exhaustive sweep, there is no pair of distinct teams of
\* one division and no unused TSL of the week, at a timeslot both teams are
\* available, for which Schedule.add_game would still accept a game.
C29_NothingAcceptableLeft ==
    [][Phase2Returns => StillAcceptable(schedule', this_week) = {}]_vars

\* a phase whose budget of seconds is none has used it up when it starts
BudgetExhaustedAtStart(p) == _calculate_phase_timeouts[p] = 0

\* C30 (as claimed): each phase checks its time budget at iteration
\* boundaries and commits no further game once its allotted timeout has
\* elapsed; a phase whose budget is already exhausted when it starts adds
\* nothing.
C30_NoGameOnceBudgetElapsed ==
    [][\A p \in {"1A", "1B", "1C", "2"} :
            (pc = p /\ BudgetExhaustedAtStart(p)) => schedule'.games = schedule.games]_vars

\* the candidates of a list for a pair of teams
CandidatesFor(candidates, a, b) ==
    {i \in DOMAIN candidates : {candidates[i].teamA, candidates[i].teamB} = {a, b}}

\* the pairs of distinct teams of one division with a common TSL
ViablePairs(division_of) ==
    {pair \in SUBSET Teams :
        /\ Cardinality(pair) = 2
        /\ \A a, b \in pair : division_of[a] = division_of[b] /\ CommonTsls(a, b) # {}}

\* C31: the feasibility generator emits exactly one candidate for each
\* unordered pair of distinct teams of the same division that has at least
\* one TSL whose timeslot is in both teams' availability sets, and none for
\* any other pair; each candidate's TSL list is exactly the set of such TSLs
\* (non-empty); divisions with fewer than 2 teams produce no candidate.
C31_OneCandidatePerViablePair ==
    probe.pc = "done" =>
        /\ \A a, b \in Teams :
                Cardinality(CandidatesFor(probe.result, a, b)) =
                    IF {a, b} \in ViablePairs(probe.division_of) THEN 1 ELSE 0
        /\ \A i \in DOMAIN probe.result :
                LET c == probe.result[i]
                IN /\ c.available_tsls # <<>>
                   /\ Range(c.available_tsls) = {tsls[k] : k \in CommonTsls(c.teamA, c.teamB)}
                   /\ Len(c.available_tsls) = Cardinality(CommonTsls(c.teamA, c.teamB))
        /\ \A t \in Teams :
                (\A u \in Teams \ {t} : probe.division_of[u] # probe.division_of[t])
                    => \A i \in DOMAIN probe.result :
                            t \notin {probe.result[i].teamA, probe.result[i].teamB}

\* C31 witness: the generator has returned candidates, one of them with
\* several TSLs, for a roster with a division of one team, and has left out
\* a pair of one division that has no common TSL
C31_Witness ==
    /\ probe.pc = "done"
    /\ \E i \in DOMAIN probe.result : Len(probe.result[i].available_tsls) >= 2
    /\ \E t \in Teams : \A u \in Teams \ {t} : probe.division_of[u] # probe.division_of[t]
    /\ \E a, b \in Teams :
            /\ a # b
            /\ probe.division_of[a] = probe.division_of[b]
            /\ CommonTsls(a, b) = {}
            /\ team_availability[a] # {}
            /\ team_availability[b] # {}

\* the Sunday on or before a date
SundayOnOrBefore(date) == CHOOSE s \in (date - 6)..date : weekday(s) = 6

\* C32: the week index buckets timeslots on Sunday boundaries counted from
\* the Sunday on or before the earliest timeslot date: two timeslots get the
\* same week number iff their dates lie in the same Sunday-to-Saturday span,
\* week numbers are non-negative and non-decreasing in date, and for each
\* timeslot week_start <= date <= week_end with week_end = week_start + 6
\* days and week_start a Sunday.
C32_WeeksOnSundayBoundaries ==
    probe.pc = "done" =>
        LET date == probe.timeslots
            week == probe.result
        IN /\ DOMAIN week = DOMAIN date
           /\ \A ts, other \in DOMAIN date :
                /\ (week[ts].week_num = week[other].week_num)
                        <=> (SundayOnOrBefore(date[ts]) = SundayOnOrBefore(date[other]))
                /\ date[ts] <= date[other] => week[ts].week_num <= week[other].week_num
           /\ \A ts \in DOMAIN date :
                /\ week[ts].week_num >= 0
                /\ week[ts].week_start <= date[ts]
                /\ date[ts] <= week[ts].week_end
                /\ week[ts].week_end = week[ts].week_start + 6
                /\ weekday(week[ts].week_start) = 6
           /\ date # <<>> => \E ts \in DOMAIN date : week[ts].week_num = 0

\* C32 witness: the mapping of a list whose earliest date is not a Sunday
\* and not first in the list, with two timeslots less than a week apart in
\* different weeks and two on different days of one week
C32_Witness ==
    /\ probe.pc = "done"
    /\ Len(probe.timeslots) = 3
    /\ weekday(Min(Range(probe.timeslots))) # 6
    /\ probe.timeslots[1] # Min(Range(probe.timeslots))
    /\ \E ts, other \in DOMAIN probe.timeslots :
            /\ probe.timeslots[other] - probe.timeslots[ts] \in 1..6
            /\ probe.result[ts].week_num + 1 = probe.result[other].week_num
    /\ \E ts, other \in DOMAIN probe.timeslots :
            /\ probe.timeslots[ts] # probe.timeslots[other]
            /\ probe.result[ts].week_num = probe.result[other].week_num

\* a list holds exactly the games of the game list that pass a test, each as
\* often as the game list does
HoldsExactly(list, games, Test(_)) ==
    /\ \A i \in DOMAIN list :
            Test(list[i]) /\ Count(list, list[i]) = Count(games, list[i])
    /\ \A i \in DOMAIN games :
            Test(games[i]) => Count(list, games[i]) = Count(games, games[i])

\* the teams, days and weeks an index key may name
KeyTeams == Teams \cup {None}

\* the indices of a Schedule agree with its game list
IndexesAgree(s) ==
    LET bound == {i \in DOMAIN s.games : Truthy(s.games[i].tsl_id)}
    IN /\ DOMAIN s.games_by_tsl = {s.games[i].tsl_id : i \in bound}
       /\ \A i \in bound : s.games_by_tsl[s.games[i].tsl_id] = s.games[i]
       /\ s.used_tsls = {s.games[i].tsl_id : i \in bound}
       /\ \A tsl_id \in TslIds \cup {None} :
            is_tsl_used(s, tsl_id) <=> \E i \in bound : s.games[i].tsl_id = tsl_id
       /\ \A key \in DOMAIN s.games_by_team_day : key[1] \in KeyTeams /\ key[2] \in Days
       /\ \A key \in DOMAIN s.games_by_team_week : key[1] \in KeyTeams /\ key[2] \in Weeks
       /\ \A team \in KeyTeams :
            /\ \A day \in Days :
                    HoldsExactly(get_team_games_on_day(s, team, day), s.games,
                        LAMBDA g : /\ Involves(g, team)
                                   /\ InDayMapping(g.timeslot_id)
                                   /\ day_mapping[g.timeslot_id] = day)
            /\ \A week_num \in Weeks :
                    HoldsExactly(get_team_games_in_week(s, team, week_num), s.games,
                        LAMBDA g : /\ Involves(g, team)
                                   /\ InWeekMapping(g.timeslot_id)
                                   /\ week_mapping[g.timeslot_id] = week_num)

\* C33: after any sequence of Schedule.add_game / remove_game calls the
\* indices agree with the game list: the TSL index maps exactly the TSL ids
\* of listed games to that game, used_tsls is exactly that id set (so
\* is_tsl_used(t) is true iff a listed game is bound to t), and for every
\* team, day and week the (team, day) and (team, week) index entries contain
\* exactly the listed games of that team on that day / in that week.
C33_IndexesAgree == IndexesAgree(schedule)

\* C33 witness: a game has been removed from a schedule that still lists a
\* game bound to a TSL, in a week, and a team of the removed game has no game
\* left
C33_Witness ==
    /\ call = [op |-> "remove_game", ret |-> TRUE, path |-> ""]
    /\ schedule.used_tsls # {}
    /\ DOMAIN schedule.games_by_team_week # {}
    /\ \E team \in Teams : \A i \in DOMAIN schedule.games : ~Involves(schedule.games[i], team)

\* the teams with a game in a week
CoveredTeams(s, week_num) == {t \in Teams : GamesInWeek(s, t, week_num) # {}}

\* a step of Phase 1C keeps every covered team covered, and leaves the
\* number of games as it was or one higher
Phase1CKeepsCoverage ==
    pc = "1C" =>
        /\ CoveredTeams(schedule, this_week) \subseteq CoveredTeams(schedule', this_week)
        /\ Len(schedule'.games) \in {Len(schedule.games), Len(schedule.games) + 1}
        /\ Len(schedule'.games) = Len(schedule.games) => SameBag(schedule'.games, schedule.games)

\* C34: Phase 1C never uncovers a team and never shrinks the schedule: every
\* team that has a game in the week before Phase 1C still has one after it,
\* and the number of games after each swap attempt is the number before it
\* (rollback) or that number plus one (commit).
C34_Phase1CKeepsCoverage ==
    /\ [][Phase1CKeepsCoverage]_vars
    /\ [](pc = "1C" =>
            CoveredTeams([games |-> log[Len(log)].games], this_week)
                \subseteq CoveredTeams(schedule, this_week))

\* C34 witness: Phase 1C has committed a swap: a game the phase started with
\* is gone, and both its teams have a game in the week
C34_Witness ==
    /\ pc = "1C"
    /\ call.op = "_apply_swap"
    /\ call.ret
    /\ \E g \in Range(log[Len(log)].games) :
            /\ ~InList(schedule.games, g)
            /\ {g.teamA, g.teamB} \subseteq CoveredTeams(schedule, this_week)

\* the pairs of teams of one division, both without a game in the week, that
\* share an unused TSL of the week at a timeslot both are available
UnmatchedPairs(s, week_num) ==
    {pair \in SUBSET Teams :
        /\ Cardinality(pair) = 2
        /\ \A t \in pair : GamesInWeek(s, t, week_num) = {}
        /\ \A a, b \in pair :
                /\ team_lookup[a].division_id = team_lookup[b].division_id
                /\ \E k \in CommonTsls(a, b) :
                        /\ week_mapping[tsls[k].timeslot_id] = week_num
                        /\ ~is_tsl_used(s, tsls[k].tsl_id)}

\* Phase 1A returns for the week
Phase1AReturns == pc = "1A" /\ log' # log

\* C35: when Phase 1A ends for a week (with max_games_per_week >= 1), its
\* matching is maximal: in no division do two teams without a game in the
\* week remain that share an unused TSL of the week at a timeslot both are
\* available.
C35_Phase1AMaximal ==
    [][Phase1AReturns => UnmatchedPairs(schedule', this_week) = {}]_vars

\* C35 witness: Phase 1A has returned with games for the week, leaving two
\* teams of one division without a game that are available at a common
\* timeslot of the week, every TSL of which is used
C35_Witness ==
    /\ pc = "1B"
    /\ log[Len(log)] = Banner(this_week, "1B", "start", schedule.games)
    /\ WeekGames(schedule.games, this_week) # {}
    /\ \E a, b \in Teams :
            /\ a # b
            /\ team_lookup[a].division_id = team_lookup[b].division_id
            /\ GamesInWeek(schedule, a, this_week) = {}
            /\ GamesInWeek(schedule, b, this_week) = {}
            /\ \E k \in CommonTsls(a, b) : week_mapping[tsls[k].timeslot_id] = this_week
            /\ \A k \in CommonTsls(a, b) :
                    week_mapping[tsls[k].timeslot_id] = this_week
                        => is_tsl_used(schedule, tsls[k].tsl_id)

\* the teams of the division a Phase 2 round is at that its generator has
\* not marked as attempted (none once the round has visited every division)
NotAttempted(p) ==
    IF p.d > Len(divisions) THEN {}
    ELSE Range(teams_by_division(divisions[p.d]))
            \ (IF divisions[p.d] \in DOMAIN p.division_generators
               THEN p.division_generators[divisions[p.d]]
               ELSE {})

\* what is left of Phase 2, as a number: the unused TSLs of the week and
\* whether the round has a commit, then the empty rounds left, then the
\* divisions left in the round, then the teams the generator may still try
Phase2Left(s, p) ==
    LET unused == Cardinality({k \in TslIds :
                        /\ week_mapping[tsls[k].timeslot_id] = this_week
                        /\ ~is_tsl_used(s, tsls[k].tsl_id)})
        commits == 2 * unused + (IF p.games_this_round > 0 THEN 1 ELSE 0)
        rounds == max_consecutive_empty - p.consecutive_empty_rounds
        visits == Len(divisions) + 1 - p.d
    IN ((commits * (max_consecutive_empty + 1) + rounds) * (Len(divisions) + 1) + visits)
            * (NumTeams + 1)
        + Cardinality(NotAttempted(p))

\* a step inside Phase 2
Phase2Step == pc = "2" /\ pc' = "2"

\* the game a generator yielded was rejected by the schedule
YieldRejected ==
    /\ Phase2Step
    /\ call' = [op |-> "add_game", ret |-> FALSE, path |-> "2"]
    /\ ph'.d = ph.d + 1

\* the round-robin of Phase 2 goes on exactly while fewer than
\* 2 * len(divisions) rounds in a row were empty
RoundRobinBounded ==
    pc = "2" =>
        /\ ph.consecutive_empty_rounds \in 0..(2 * Len(divisions))
        /\ ph.d \in 1..(Len(divisions) + 1)
        /\ ph.games_this_round \in 0..Len(divisions)

\* every step inside Phase 2 leaves less of the phase; a rejected game adds
\* nothing to the round; the sweep comes after 2 * len(divisions) empty
\* rounds in a row; a generator is dropped when every team of its division
\* with spare capacity has been attempted
Phase2Advances ==
    /\ Phase2Step =>
            /\ Phase2Left(schedule', ph') < Phase2Left(schedule, ph)
            /\ Phase2Left(schedule', ph') >= 0
    /\ YieldRejected =>
            /\ schedule' = schedule
            /\ ph'.games_this_round = ph.games_this_round
    /\ (pc = "2" /\ pc' # "2" /\ pc' # "failed") =>
            /\ ph.consecutive_empty_rounds = 2 * Len(divisions)
            /\ "division_generators" \notin DOMAIN ph' \/ ph'.division_generators = EmptyDict
    /\ (Phase2Step /\ ph.d <= Len(divisions)
            /\ divisions[ph.d] \in DOMAIN ph.division_generators
            /\ divisions[ph.d] \notin DOMAIN ph'.division_generators) =>
            \A t \in NotAttempted(ph) :
                Cardinality(GamesInWeek(schedule, t, this_week)) >= max_games_per_week

\* C36: Phase 2 always terminates, also when a game yielded by a division
\* generator is rejected by Schedule.add_game: the round-robin loop ends
\* after 2 x (number of divisions) consecutive rounds without a commit, each
\* division generator ends once every eligible team has been attempted
\* without success, and the divisions' generators for the week are discarded
\* when the phase returns.
C36_Phase2Terminates == []RoundRobinBounded /\ [][Phase2Advances]_vars

\* C36 witness: in a round of Phase 2 that follows an empty round the
\* schedule has rejected the game a generator yielded, and the generator is
\* kept
C36_Witness ==
    /\ pc = "2"
    /\ call = [op |-> "add_game", ret |-> FALSE, path |-> "2"]
    /\ ph.consecutive_empty_rounds >= 1
    /\ ph.d >= 2
    /\ divisions[ph.d - 1] \in DOMAIN ph.division_generators

(***************************************************************************)
(* TrueMultiPhaseScheduler (models/true_multi_phase_scheduler.py): the     *)
(* tracking of its scheduled games, and Phase 1C, strategic displacement.  *)
(* The scheduler's fields are the record `tracking` of the probe.          *)
(***************************************************************************)
MaxTracked == 2

\* TrueMultiPhaseScheduler.__init__: nothing scheduled; the two defaultdicts
\* of counters read 0 wherever nothing was counted
NewTracking ==
    [scheduled_games |-> <<>>,
     used_tsls |-> {},
     team_weekly_games |-> [k \in Weeks \X Teams |-> 0],
     team_daily_games |-> [k \in Days \X Teams |-> 0]]

\* game.copy() with the fields of the TSL it is placed at
PlacedAt(game, tsl) ==
    [teamA |-> game.teamA, teamB |-> game.teamB,
     tsl_id |-> tsl.tsl_id, timeslot_id |-> tsl.timeslot_id]

\* TrueMultiPhaseScheduler._track_game (a violated cap is logged, no more)
_track_game(st, game) ==
    LET s1 == [st EXCEPT !.scheduled_games = Append(@, game)]
        s2 == IF game.timeslot_id \in DOMAIN week_mapping
              THEN LET week_num == week_mapping[game.timeslot_id]
                   IN [s1 EXCEPT !.team_weekly_games[<<week_num, game.teamA>>] = @ + 1,
                                 !.team_weekly_games[<<week_num, game.teamB>>] = @ + 1]
              ELSE s1
    IN IF game.timeslot_id \in DOMAIN day_mapping
       THEN LET day == day_mapping[game.timeslot_id]
            IN [s2 EXCEPT !.team_daily_games[<<day, game.teamA>>] = @ + 1,
                          !.team_daily_games[<<day, game.teamB>>] = @ + 1]
       ELSE s2

\* TrueMultiPhaseScheduler._untrack_game
_untrack_game(st, game) ==
    LET s1 == [st EXCEPT !.scheduled_games = ListRemove(@, game),
                         !.used_tsls = @ \ {game.tsl_id}]
        s2 == IF game.timeslot_id \in DOMAIN week_mapping
              THEN LET week_num == week_mapping[game.timeslot_id]
                   IN [s1 EXCEPT !.team_weekly_games[<<week_num, game.teamA>>] = @ - 1,
                                 !.team_weekly_games[<<week_num, game.teamB>>] = @ - 1]
              ELSE s1
    IN IF game.timeslot_id \in DOMAIN day_mapping
       THEN LET day == day_mapping[game.timeslot_id]
            IN [s2 EXCEPT !.team_daily_games[<<day, game.teamA>>] = @ - 1,
                          !.team_daily_games[<<day, game.teamB>>] = @ - 1]
       ELSE s2

\* TrueMultiPhaseScheduler._can_schedule_game
_can_schedule_game(st, team_a, team_b, timeslot_id) ==
    /\ timeslot_id \in DOMAIN week_mapping
    /\ timeslot_id \in DOMAIN day_mapping
    /\ st.team_weekly_games[<<week_mapping[timeslot_id], team_a>>] < max_games_per_week
    /\ st.team_weekly_games[<<week_mapping[timeslot_id], team_b>>] < max_games_per_week
    /\ st.team_daily_games[<<day_mapping[timeslot_id], team_a>>] < max_games_per_day
    /\ st.team_daily_games[<<day_mapping[timeslot_id], team_b>>] < max_games_per_day

\* schedule(): games_by_week[week_num], the candidates whose first TSL lies
\* in the week
games_by_week(candidates, week_num) ==
    SelectSeq(candidates, LAMBDA g :
        /\ g.available_tsls # <<>>
        /\ InWeekMapping(g.available_tsls[1].timeslot_id)
        /\ week_mapping[g.available_tsls[1].timeslot_id] = week_num)

\* the other team of a game
Opponent(game, team) == IF game.teamA = team THEN game.teamB ELSE game.teamA

\* _can_perform_displacement: the tests an alternative TSL of the displaced
\* team passes.  The displaced team's counters are read one lower, for the
\* game it loses; the alternative opponent's are read as they stand.
alt_tsl_viable(st, tsl_id, displaced_team, alt_game, alt_tsl, week_num) ==
    LET alt_opponent == Opponent(alt_game, displaced_team)
        alt_timeslot_id == alt_tsl.timeslot_id
    IN /\ alt_timeslot_id \in DOMAIN week_mapping
       /\ week_mapping[alt_timeslot_id] = week_num
       /\ alt_tsl.tsl_id # tsl_id
       /\ alt_tsl.tsl_id \notin st.used_tsls
       /\ st.team_weekly_games[<<week_num, displaced_team>>] - 1 < max_games_per_week
       /\ st.team_weekly_games[<<week_num, alt_opponent>>] < max_games_per_week
       /\ alt_timeslot_id \in DOMAIN day_mapping
       /\ st.team_daily_games[<<day_mapping[alt_timeslot_id], displaced_team>>] - 1
              < max_games_per_day
       /\ st.team_daily_games[<<day_mapping[alt_timeslot_id], alt_opponent>>]
              < max_games_per_day

\* _can_perform_displacement returns None
NoDisplacement == [viable |-> FALSE]

\* TrueMultiPhaseScheduler._can_perform_displacement: the swap game with the
\* first alternative game and TSL of the displaced team that pass the tests,
\* or None.  It changes no state.
_can_perform_displacement(st, scheduled_game, displaced_team, kept_team, unscheduled_team, swap_game, candidates, week_num) ==
    LET week_num_sched == week_mapping[scheduled_game.timeslot_id]
        day_sched == day_mapping[scheduled_game.timeslot_id]
        alternative_games ==
            SelectSeq(candidates, LAMBDA g :
                g.teamA = displaced_team \/ g.teamB = displaced_team)
        viable == {ij \in (1..Len(alternative_games)) \X TslIds :
                    /\ ij[2] <= Len(alternative_games[ij[1]].available_tsls)
                    /\ alt_tsl_viable(st, scheduled_game.tsl_id, displaced_team,
                            alternative_games[ij[1]],
                            alternative_games[ij[1]].available_tsls[ij[2]], week_num)}
    IN IF \/ st.team_weekly_games[<<week_num_sched, unscheduled_team>>]
                >= max_games_per_week
          \/ st.team_weekly_games[<<week_num_sched, kept_team>>] - 1
                >= max_games_per_week
          \/ st.team_daily_games[<<day_sched, unscheduled_team>>] >= max_games_per_day
          \/ st.team_daily_games[<<day_sched, kept_team>>] - 1 >= max_games_per_day
          \/ viable = {}
       THEN NoDisplacement
       ELSE LET i == Min({ij[1] : ij \in viable})
                j == Min({ij[2] : ij \in {x \in viable : x[1] = i}})
            IN [viable |-> TRUE,
                swap_game |-> swap_game,
                alt_game |-> alternative_games[i],
                alt_tsl |-> alternative_games[i].available_tsls[j]]

\* _phase1c_strategic_displacement: the candidates of the unscheduled team
\* and the kept team that list the scheduled game's TSL
swap_games(candidates, scheduled_game, unscheduled_team, kept_team) ==
    SelectSeq(candidates, LAMBDA g :
        /\ \/ g.teamA = unscheduled_team /\ g.teamB = kept_team
           \/ g.teamA = kept_team /\ g.teamB = unscheduled_team
        /\ \E k \in 1..Len(g.available_tsls) :
                g.available_tsls[k].tsl_id = scheduled_game.tsl_id)

\* _phase1c_strategic_displacement: what the loops over the scheduled games
\* and their two teams find for one unscheduled team.  An attempt is a
\* scheduled game of the week and the team of it to displace (1: teamA,
\* 2: teamB), of the unscheduled team's division, for which a swap game
\* exists and _can_perform_displacement finds an alternative.
displaced_of(scheduled_game, side) ==
    IF side = 1 THEN scheduled_game.teamA ELSE scheduled_game.teamB

kept_of(scheduled_game, side) ==
    IF side = 1 THEN scheduled_game.teamB ELSE scheduled_game.teamA

attempt_result(st, candidates, week_num, unscheduled_team, scheduled_game, side) ==
    LET swaps == swap_games(candidates, scheduled_game, unscheduled_team,
                            kept_of(scheduled_game, side))
    IN IF \/ week_mapping[scheduled_game.timeslot_id] # week_num
          \/ DivisionOf(displaced_of(scheduled_game, side)) # DivisionOf(unscheduled_team)
          \/ swaps = <<>>
       THEN NoDisplacement
       ELSE _can_perform_displacement(st, scheduled_game,
                displaced_of(scheduled_game, side), kept_of(scheduled_game, side),
                unscheduled_team, swaps[1], candidates, week_num)

\* _phase1c_strategic_displacement: the commit of a viable displacement.  The
\* old game is untracked, the swap game is tracked at the old game's TSL and
\* the alternative game at the alternative TSL.
commit_displacement(r, scheduled_game, swap_result) ==
    LET new_game == PlacedAt(swap_result.swap_game, scheduled_game)
        alt_new_game == PlacedAt(swap_result.alt_game, swap_result.alt_tsl)
        s1 == _untrack_game(r.tracking, scheduled_game)
        s2 == _track_game([s1 EXCEPT !.used_tsls = @ \cup {scheduled_game.tsl_id}],
                          new_game)
        s3 == _track_game([s2 EXCEPT !.used_tsls = @ \cup {alt_new_game.tsl_id}],
                          alt_new_game)
    IN [tracking |-> s3,
        displaced_games |-> r.displaced_games \o <<new_game, alt_new_game>>]

\* _phase1c_strategic_displacement: one turn of the loop over the
\* unscheduled teams: the first viable attempt is committed
displace_for(r, candidates, week_num, unscheduled_team) ==
    LET st == r.tracking
        viable == {a \in (1..Len(st.scheduled_games)) \X {1, 2} :
                    attempt_result(st, candidates, week_num, unscheduled_team,
                                   st.scheduled_games[a[1]], a[2]).viable}
    IN IF viable = {} THEN r
       ELSE LET k == Min({a[1] : a \in viable})
                side == Min({a[2] : a \in {x \in viable : x[1] = k}})
            IN commit_displacement(r, st.scheduled_games[k],
                    attempt_result(st, candidates, week_num, unscheduled_team,
                                   st.scheduled_games[k], side))

\* _phase1c_strategic_displacement: the loop over the unscheduled teams, from
\* the i-th on, left after `turns` teams when the time is up
RECURSIVE displace_from(_, _, _, _, _, _)
displace_from(r, candidates, week_num, unscheduled_teams, i, turns) ==
    IF i > Len(unscheduled_teams) \/ i > turns THEN r
    ELSE displace_from(displace_for(r, candidates, week_num, unscheduled_teams[i]),
                       candidates, week_num, unscheduled_teams, i + 1, turns)

\* the games of a list that lie in a week
games_in_week(games, week_num) ==
    SelectSeq(games, LAMBDA g :
        g.timeslot_id \in DOMAIN week_mapping /\ week_mapping[g.timeslot_id] = week_num)

\* _phase1c_strategic_displacement: the teams of the candidates that have no
\* game in the week.  The set holds small integers, which Python iterates in
\* ascending order.
unscheduled_teams_of(st, candidates, week_num) ==
    Sorted(TeamsOf(candidates) \ TeamsOf(games_in_week(st.scheduled_games, week_num)))

\* _phase1c_strategic_displacement: the TSLs of the week's candidates that no
\* game of the week uses
unused_week_tsls(st, candidates, week_num) ==
    LET week_tsls ==
            UNION {{g.available_tsls[k].tsl_id :
                        k \in {n \in 1..Len(g.available_tsls) :
                            /\ InWeekMapping(g.available_tsls[n].timeslot_id)
                            /\ week_mapping[g.available_tsls[n].timeslot_id] = week_num}} :
                   g \in Range(candidates)}
        used_week_tsls ==
            {g.tsl_id : g \in Range(games_in_week(st.scheduled_games, week_num))}
    IN week_tsls \ used_week_tsls

\* TrueMultiPhaseScheduler._phase1c_strategic_displacement
_phase1c_strategic_displacement(st, candidates, week_num, turns) ==
    LET start == [tracking |-> st, displaced_games |-> <<>>]
        unscheduled_teams == unscheduled_teams_of(st, candidates, week_num)
    IN IF unscheduled_teams = <<>> \/ unused_week_tsls(st, candidates, week_num) = {}
       THEN start
       ELSE displace_from(start, candidates, week_num, unscheduled_teams, 1, turns)

\* the weeks schedule() processes: those some candidate is grouped under
weeks_of(candidates) == {w \in Weeks : games_by_week(candidates, w) # <<>>}

InitDisplacement ==
    /\ schedule = NewSchedule
    /\ max_games_per_week \in 1..MaxCap
    /\ max_games_per_day \in 1..MaxCap
    /\ call = [op |-> "none", ret |-> FALSE, path |-> ""]
    /\ \E m \in ModelChoices :
            /\ tsls = m.tsls
            /\ team_availability = m.team_availability
    /\ feasible_games = generate
    /\ division_preferred_locations = [defined |-> FALSE, map |-> EmptyDict]
    /\ stop_after_phase = NoPhase
    /\ pc = "idle"
    /\ all_weeks = <<>>
    /\ week_idx = 0
    /\ ph = [phase |-> NoPhase]
    /\ log = <<>>
    /\ rerun = NoRerun
    /\ timeout = DefaultTimeout
    /\ \E week_num \in weeks_of(feasible_games) :
            probe = [pc |-> "1B", week_num |-> week_num,
                     tracking |-> NewTracking, displaced_games |-> <<>>]

\* Phases 1A and 1B place a candidate of the week at one of its TSLs: the
\* TSL is unused, _can_schedule_game accepts the game, the TSL is marked
\* used and the game is tracked
TrackGame ==
    /\ probe.pc = "1B"
    /\ Len(probe.tracking.scheduled_games) < MaxTracked
    /\ \E g \in Range(games_by_week(feasible_games, probe.week_num)) :
       \E tsl \in Range(g.available_tsls) :
            /\ tsl.tsl_id \notin probe.tracking.used_tsls
            /\ _can_schedule_game(probe.tracking, g.teamA, g.teamB, tsl.timeslot_id)
            /\ probe' = [probe EXCEPT !.tracking =
                    _track_game([probe.tracking EXCEPT !.used_tsls = @ \cup {tsl.tsl_id}],
                                PlacedAt(g, tsl))]
    /\ UNCHANGED <<schedule, max_games_per_week, max_games_per_day, call,
                   team_availability, division_preferred_locations, stop_after_phase,
                   pc, all_weeks, week_idx, ph, log, tsls, feasible_games, rerun,
                   timeout>>

\* schedule() calls _phase1c_strategic_displacement on the week's candidates;
\* the time check at the head of its loop may end the loop after any number
\* of unscheduled teams
Phase1CDisplacement ==
    /\ probe.pc = "1B"
    /\ \E turns \in 0..Len(unscheduled_teams_of(probe.tracking,
                        games_by_week(feasible_games, probe.week_num), probe.week_num)) :
         \E r \in {_phase1c_strategic_displacement(probe.tracking,
                        games_by_week(feasible_games, probe.week_num),
                        probe.week_num, turns)} :
            probe' = [probe EXCEPT !.pc = "done",
                                   !.tracking = r.tracking,
                                   !.displaced_games = r.displaced_games]
    /\ UNCHANGED <<schedule, max_games_per_week, max_games_per_day, call,
                   team_availability, division_preferred_locations, stop_after_phase,
                   pc, all_weeks, week_idx, ph, log, tsls, feasible_games, rerun,
                   timeout>>

NextDisplacement == TrackGame \/ Phase1CDisplacement

SpecDisplacement == InitDisplacement /\ [][NextDisplacement]_vars

\* the games of a list a team plays in a week, on a day
GamesInWeekOf(games, team, week_num) ==
    Cardinality({i \in 1..Len(games) :
        /\ team \in {games[i].teamA, games[i].teamB}
        /\ week_mapping[games[i].timeslot_id] = week_num})

GamesOnDayOf(games, team, day) ==
    Cardinality({i \in 1..Len(games) :
        /\ team \in {games[i].teamA, games[i].teamB}
        /\ day_mapping[games[i].timeslot_id] = day})

\* no team has more games in a week or on a day than the configuration allows
RespectsCaps(games) ==
    \A team \in Teams :
        /\ \A week_num \in Weeks :
                GamesInWeekOf(games, team, week_num) <= max_games_per_week
        /\ \A day \in Days : GamesOnDayOf(games, team, day) <= max_games_per_day

\* the state Phase 1C starts from respects the caps, and its counters are
\* the numbers of tracked games
TrackedStateRespectsCaps ==
    probe.pc = "1B" =>
        /\ RespectsCaps(probe.tracking.scheduled_games)
        /\ \A team \in Teams :
            /\ \A week_num \in Weeks :
                    probe.tracking.team_weekly_games[<<week_num, team>>]
                        = GamesInWeekOf(probe.tracking.scheduled_games, team, week_num)
            /\ \A day \in Days :
                    probe.tracking.team_daily_games[<<day, team>>]
                        = GamesOnDayOf(probe.tracking.scheduled_games, team, day)

\* C37: in TrueMultiPhaseScheduler's Phase 1C, starting from a tracked state
\* that respects the caps, after a committed displacement every team has at
\* most max_games_per_week games in every week and at most max_games_per_day
\* games on every day.
C37_DisplacementKeepsCaps ==
    (probe.pc = "done" /\ probe.displaced_games # <<>>) =>
        RespectsCaps(probe.tracking.scheduled_games)

(***************************************************************************)
(* GreedyScheduler (models/scheduler.py) on candidate lists of its own: a  *)
(* candidate is a pair of teams at one TSL with a weight.                  *)
(***************************************************************************)
MaxCandidates == 3

MaxWeight == 2

\* a candidate without the key 'weight'
NoWeight == 0 - 1

\* the candidates a list may hold: pairs of four teams at two TSLs
WeightedGames ==
    {g \in [teamA : 1..4, teamB : 1..4, tsl_id : 1..2,
            weight : {NoWeight} \cup (1..MaxWeight)] : g.teamA < g.teamB}

CandidateLists == UNION {[1..n -> WeightedGames] : n \in 0..MaxCandidates}

\* g.get('weight', 0)
weight_of(g) == IF g.weight = NoWeight THEN 0 ELSE g.weight

\* a scheduler that takes the candidates in the order given
games_in_given_order(candidates) == candidates

\* sorted(feasible_games, key=lambda g: g.get('weight', 0), reverse=True):
\* descending by weight, equal weights keep their order
sorted_games(candidates) ==
    LET n == Len(candidates)
        rank(i) == Cardinality({j \in 1..n :
                        \/ weight_of(candidates[j]) > weight_of(candidates[i])
                        \/ weight_of(candidates[j]) = weight_of(candidates[i]) /\ j < i}) + 1
    IN [p \in 1..n |-> candidates[CHOOSE i \in 1..n : rank(i) = p]]

\* GreedyScheduler.schedule: the selection loop from the i-th sorted game on
RECURSIVE greedy_select(_, _, _, _, _)
greedy_select(games, i, used_teams, used_tsls, selected_games) ==
    IF i > Len(games) THEN selected_games
    ELSE LET game == games[i]
         IN IF \/ game.teamA \in used_teams
               \/ game.teamB \in used_teams
               \/ game.tsl_id \in used_tsls
            THEN greedy_select(games, i + 1, used_teams, used_tsls, selected_games)
            ELSE greedy_select(games, i + 1,
                               used_teams \cup {game.teamA, game.teamB},
                               used_tsls \cup {game.tsl_id},
                               Append(selected_games, game))

\* GreedyScheduler.schedule: the selected games, or NoFeasibleGamesError
greedy_schedule(candidates) ==
    IF candidates = <<>>
    THEN [raised |-> "NoFeasibleGamesError", games |-> <<>>]
    ELSE LET selected_games == greedy_select(sorted_games(candidates), 1, {}, {}, <<>>)
         IN IF selected_games = <<>>
            THEN [raised |-> "NoFeasibleGamesError", games |-> <<>>]
            ELSE [raised |-> "", games |-> selected_games]

InitGreedy ==
    /\ NoController
    /\ schedule = NewSchedule
    /\ max_games_per_week = 1
    /\ max_games_per_day = 1
    /\ call = [op |-> "none", ret |-> FALSE, path |-> ""]
    /\ \E candidates \in CandidateLists :
            probe = [pc |-> "call", candidates |-> candidates,
                     result |-> [raised |-> "", games |-> <<>>]]

\* GreedyScheduler().schedule(feasible_games) returns or raises
GreedyScheduleCall ==
    /\ probe.pc = "call"
    /\ probe' = [probe EXCEPT !.pc = "done",
                              !.result = greedy_schedule(probe.candidates)]
    /\ UNCHANGED <<schedule, max_games_per_week, max_games_per_day, call,
                   team_availability, division_preferred_locations, stop_after_phase,
                   pc, all_weeks, week_idx, ph, log, tsls, feasible_games, rerun,
                   timeout>>

NextGreedy == GreedyScheduleCall

SpecGreedy == InitGreedy /\ [][NextGreedy]_vars

\* two candidates that cannot both be played: a team or the TSL in common
Conflict(g, h) ==
    \/ {g.teamA, g.teamB} \cap {h.teamA, h.teamB} # {}
    \/ g.tsl_id = h.tsl_id

\* the positions of a candidate list the selection took: the selection is a
\* sub-list of the candidates sorted by weight
TakenBy(candidates, selected) ==
    {i \in 1..Len(candidates) :
        Cardinality({j \in 1..i : candidates[j] = candidates[i]})
            <= Count(selected, candidates[i])}

\* C38: GreedyScheduler.schedule on a non-empty candidate list returns a
\* selection, of candidates of the list, in which no team and no TSL id
\* appears in two games, and every candidate it did not select shares a team
\* or a TSL with a selected candidate of at least its weight.
C38_GreedySelection ==
    (probe.pc = "done" /\ probe.candidates # <<>>) =>
        LET selected == probe.result.games
            candidates == probe.candidates
        IN /\ probe.result.raised = ""
           /\ selected # <<>>
           /\ \A k \in 1..Len(selected) :
                Count(selected, selected[k]) <= Count(candidates, selected[k])
           /\ \A k, l \in 1..Len(selected) :
                k # l => ~Conflict(selected[k], selected[l])
           /\ \A i \in 1..Len(candidates) :
                i \notin TakenBy(candidates, selected) =>
                    \E k \in 1..Len(selected) :
                        /\ Conflict(candidates[i], selected[k])
                        /\ weight_of(selected[k]) >= weight_of(candidates[i])

\* three candidates: two that can both be played were selected, the third,
\* first in the list and lighter than the game it conflicts with, was not
C38_Witness ==
    /\ probe.pc = "done"
    /\ Len(probe.candidates) = 3
    /\ Len(probe.result.games) = 2
    /\ probe.candidates[1] \notin Range(probe.result.games)
    /\ \E k \in 1..2 :
        /\ Conflict(probe.candidates[1], probe.result.games[k])
        /\ weight_of(probe.result.games[k]) > weight_of(probe.candidates[1])

(***************************************************************************)
(* The job manager (job_manager.py) and the background task of the server  *)
(* (server.py).  A job is a JSON file of the jobs directory; the probe     *)
(* holds the files, the tasks and the clock.                               *)
(***************************************************************************)
MaxJobs == 2

JobIds == 1..MaxJobs

\* JobStatus
QUEUED == "queued"

RUNNING == "running"

COMPLETED == "completed"

FAILED == "failed"

\* the job data of no job; the result and the error are "" where Python
\* holds None
NoJobData ==
    [status |-> "", started_at |-> None, completed_at |-> None,
     result |-> "", error |-> "", completed_steps |-> 0]

\* no file <job_id>.json in the jobs directory
NoJobFile == [exists |-> FALSE, complete |-> FALSE, data |-> NoJobData]

\* JobManager.create_job: the data of a new job
new_job_data == [NoJobData EXCEPT !.status = QUEUED]

\* JobManager.get_job: the data of the job, or None when the file is missing
\* or json.load cannot read it
get_job(files, job_id) ==
    IF files[job_id].exists /\ files[job_id].complete
    THEN [found |-> TRUE, data |-> files[job_id].data]
    ELSE [found |-> FALSE, data |-> NoJobData]

\* an update that stamps started_at at every update to running
job_data_restamped(job_data, status, error, result, completed_steps, now) ==
    [job_data EXCEPT
        !.status = status,
        !.started_at = IF status = RUNNING THEN now ELSE @,
        !.completed_at = IF status \in {COMPLETED, FAILED} THEN now ELSE @,
        !.error = IF error # "" THEN error ELSE @,
        !.result = IF result # "" THEN result ELSE @,
        !.completed_steps = IF completed_steps # None THEN completed_steps ELSE @]

\* JobManager.update_job_status: the job data it saves, at time `now`
updated_job_data(job_data, status, error, result, completed_steps, now) ==
    [job_data EXCEPT
        !.status = status,
        !.started_at = IF status = RUNNING /\ @ = None THEN now ELSE @,
        !.completed_at = IF status \in {COMPLETED, FAILED} THEN now ELSE @,
        !.error = IF error # "" THEN error ELSE @,
        !.result = IF result # "" THEN result ELSE @,
        !.completed_steps = IF completed_steps # None THEN completed_steps ELSE @]

\* run_schedule_generation: its statements.  1, 2, 4, 6: the updates to
\* running; 3: ScheduleGenerator(...); 5: generator.generate_schedule(...);
\* 7: the update to completed; 8: the except clause, the update to failed;
\* 9: the task has returned.  0: no task.
UpdateOps == {1, 2, 4, 6, 7, 8}

Returned == 9

next_op(op) == IF op \in {7, 8} THEN Returned ELSE op + 1

\* run_schedule_generation: the arguments of its update_job_status calls
update_args(task) ==
    [status |-> IF task.op = 7 THEN COMPLETED
                ELSE IF task.op = 8 THEN FAILED ELSE RUNNING,
     error |-> IF task.op = 8 THEN task.error ELSE "",
     result |-> IF task.op = 7 THEN task.result ELSE "",
     completed_steps |-> CASE task.op = 1 -> 1
                           [] task.op = 2 -> 2
                           [] task.op = 4 -> 3
                           [] task.op = 6 -> 4
                           [] task.op = 7 -> 5
                           [] OTHER -> None]

NoTask == [op |-> 0, phase |-> "call", job_data |-> NoJobData, result |-> "", error |-> ""]

InitJobs ==
    /\ NoController
    /\ schedule = NewSchedule
    /\ max_games_per_week = 1
    /\ max_games_per_day = 1
    /\ call = [op |-> "none", ret |-> FALSE, path |-> ""]
    /\ probe = [pc |-> "jobs",
                now |-> 1,
                files |-> [j \in JobIds |-> NoJobFile],
                tasks |-> [j \in JobIds |-> NoTask],
                recorded |-> [j \in JobIds |-> <<>>],
                deleted |-> [j \in JobIds |-> FALSE]]

JobsUnchanged ==
    UNCHANGED <<schedule, max_games_per_week, max_games_per_day, call,
                team_availability, division_preferred_locations, stop_after_phase,
                pc, all_weeks, week_idx, ph, log, tsls, feasible_games, rerun,
                timeout>>

\* POST /schedule/start: create_job saves a queued job under a fresh id and
\* the background task is added
StartScheduleGeneration ==
    /\ \E job_id \in JobIds :
        /\ probe.tasks[job_id].op = 0
        /\ \A j \in 1..(job_id - 1) : probe.tasks[j].op # 0
        /\ probe' = [probe EXCEPT
                !.files[job_id] = [exists |-> TRUE, complete |-> TRUE,
                                   data |-> new_job_data],
                !.recorded[job_id] = <<new_job_data>>,
                !.tasks[job_id] = [NoTask EXCEPT !.op = 1],
                !.now = @ + 1]
    /\ JobsUnchanged

\* update_job_status up to its call of _save_job: get_job reads the file; no
\* job data, and the update returns False; else the data is changed in memory
UpdateJobStatus(job_id) ==
    LET task == probe.tasks[job_id]
        got == get_job(probe.files, job_id)
        args == update_args(task)
    IN /\ task.op \in UpdateOps
       /\ task.phase = "call"
       /\ probe' = [probe EXCEPT
            !.now = @ + 1,
            !.tasks[job_id] =
                IF got.found
                THEN [task EXCEPT !.phase = "open",
                                  !.job_data = updated_job_data(got.data, args.status,
                                        args.error, args.result, args.completed_steps,
                                        probe.now)]
                ELSE [task EXCEPT !.op = next_op(task.op)]]
       /\ JobsUnchanged

\* _save_job: open(job_file, 'w') creates the file, or empties it
SaveJobOpen(job_id) ==
    /\ probe.tasks[job_id].phase = "open"
    /\ probe' = [probe EXCEPT
            !.files[job_id] = [exists |-> TRUE, complete |-> FALSE, data |-> NoJobData],
            !.tasks[job_id].phase = "dump"]
    /\ JobsUnchanged

\* _save_job: json.dump writes the data and the file is closed; a file
\* unlinked since it was opened stays unlinked.  update_job_status returns
\* True and the task goes on.
SaveJobDump(job_id) ==
    LET task == probe.tasks[job_id]
    IN /\ task.phase = "dump"
       /\ probe' = [probe EXCEPT
            !.files[job_id] = IF @.exists
                              THEN [exists |-> TRUE, complete |-> TRUE,
                                    data |-> task.job_data]
                              ELSE @,
            !.recorded[job_id] = IF probe.files[job_id].exists
                                 THEN Append(@, task.job_data) ELSE @,
            !.tasks[job_id] = [task EXCEPT !.phase = "call", !.op = next_op(task.op),
                                           !.job_data = NoJobData]]
       /\ JobsUnchanged

\* run_schedule_generation: ScheduleGenerator(...) and generate_schedule(...)
\* return, or raise into the except clause
GeneratorStep(job_id) ==
    LET task == probe.tasks[job_id]
    IN /\ task.op \in {3, 5}
       /\ \E raised \in BOOLEAN :
            probe' = [probe EXCEPT !.tasks[job_id] =
                IF raised THEN [task EXCEPT !.op = 8, !.error = "SchedulingError"]
                ELSE IF task.op = 5
                     THEN [task EXCEPT !.op = 6, !.result = "result"]
                     ELSE [task EXCEPT !.op = 4]]
       /\ JobsUnchanged

\* a step of the background task of a job
TaskStep(job_id) ==
    \/ UpdateJobStatus(job_id)
    \/ SaveJobOpen(job_id)
    \/ SaveJobDump(job_id)
    \/ GeneratorStep(job_id)

\* DELETE /schedule/{job_id}: delete_job unlinks the file and returns True
\* (False, and a 404, when there is no file)
DeleteJob(job_id) ==
    /\ probe.files[job_id].exists
    /\ probe' = [probe EXCEPT !.files[job_id] = NoJobFile,
                              !.deleted[job_id] = TRUE]
    /\ JobsUnchanged

NextJobs == StartScheduleGeneration \/ \E job_id \in JobIds : TaskStep(job_id)

\* the server without DELETE requests
SpecJobs == InitJobs /\ [][NextJobs]_vars

\* the thread pool runs every background task to its end
FairSpecJobs == SpecJobs /\ \A job_id \in JobIds : WF_vars(TaskStep(job_id))

NextJobsDelete == NextJobs \/ \E job_id \in JobIds : DeleteJob(job_id)

\* the server with DELETE requests
SpecJobsDelete == InitJobs /\ [][NextJobsDelete]_vars

\* a status sequence without its repetitions
RECURSIVE Collapsed(_)
Collapsed(seq) ==
    IF Len(seq) <= 1 THEN seq
    ELSE IF seq[1] = seq[2] THEN Collapsed(Tail(seq))
    ELSE <<seq[1]>> \o Collapsed(Tail(seq))

IsPrefix(p, seq) == Len(p) <= Len(seq) /\ SubSeq(seq, 1, Len(p)) = p

StatusesOf(records) == [k \in 1..Len(records) |-> records[k].status]

\* the records saved for a job: queued, then running, then one of completed
\* and failed; started_at is set from the first running record on and keeps
\* its value; completed_at is set in completed and failed records only
LifecycleRecorded(records) ==
    /\ \/ IsPrefix(Collapsed(StatusesOf(records)), <<QUEUED, RUNNING, COMPLETED>>)
       \/ IsPrefix(Collapsed(StatusesOf(records)), <<QUEUED, RUNNING, FAILED>>)
    /\ \A k \in 1..Len(records) :
        /\ (records[k].started_at = None) = (records[k].status = QUEUED)
        /\ records[k].completed_at # None => records[k].status \in {COMPLETED, FAILED}
        /\ \A l \in k..Len(records) :
                records[k].started_at # None =>
                    records[l].started_at = records[k].started_at

HandedToTask(job_id) == probe.pc = "jobs" /\ probe.tasks[job_id].op # 0

TerminalStatus(job_id) ==
    /\ probe.pc = "jobs"
    /\ get_job(probe.files, job_id).found
    /\ get_job(probe.files, job_id).data.status \in {COMPLETED, FAILED}

JobLifecycle ==
    probe.pc = "jobs" =>
        \A job_id \in JobIds :
            /\ LifecycleRecorded(probe.recorded[job_id])
            /\ probe.tasks[job_id].op = Returned => TerminalStatus(job_id)

\* C39: every job handed to run_schedule_generation eventually has status
\* completed or failed, and has it once the task has returned; the statuses
\* saved for it are queued, then running, then one of completed and failed;
\* started_at is set at the first update to running and never changed,
\* completed_at is set in a terminal status only.
C39_JobLifecycle ==
    /\ []JobLifecycle
    /\ \A job_id \in JobIds : HandedToTask(job_id) ~> TerminalStatus(job_id)

\* a job whose generator raised: running was saved more than once, then
\* failed, and the task has returned
C39_Witness ==
    /\ probe.pc = "jobs"
    /\ \E job_id \in JobIds :
        /\ probe.tasks[job_id].op = Returned
        /\ probe.files[job_id].data.status = FAILED
        /\ probe.files[job_id].data.error # ""
        /\ Len(probe.recorded[job_id]) >= 4
        /\ probe.files[job_id].data.completed_at > probe.files[job_id].data.started_at

\* C40: once delete_job has returned True for a job id, the job file stays
\* deleted, whatever the background task of the job does next: get_job
\* returns None from then on.
C40_DeletedStaysDeleted ==
    probe.pc = "jobs" =>
        \A job_id \in JobIds : probe.deleted[job_id] => ~probe.files[job_id].exists

====
